---------------------------- MODULE Spec2Model ----------------------------
(* State-machine model of yt_obsidian: the transcript chunker, the retry   *)
(* policy around the chat-completion endpoint, the summarization and       *)
(* keyword pipelines (OpenAICompatibleClient), the content identifier      *)
(* (YouTubeClient.verify_input_type), the model profiles                   *)
(* (get_model_config) and the process command with its video, playlist     *)
(* and channel processing.                                                 *)
(*                                                                         *)
(* Strings are sequences of one-character strings, so that slicing,        *)
(* substring search and regular-expression matching are computed, not      *)
(* assumed.  Text that the program only assembles (prompts, summaries) is  *)
(* a sequence of fragments, one per piece of the f-string or concatenation *)
(* that builds it.                                                         *)
EXTENDS Integers, Sequences, FiniteSets, TLC

VARIABLES
    \* _chunk_transcript
    transcript,      \* the text being chunked
    max_chars,       \* max_chars argument (self.max_transcript_chars in the pipeline)
    overlap,         \* overlap argument
    start,           \* loop variable start
    chunks,          \* list of chunks appended so far
    bounds,          \* history: the slice [lo, hi) of transcript each chunk was cut from
    cpc,             \* position in _chunk_transcript: "none", "entry", "loop", "done"
    \* _make_api_request
    max_retries,     \* RetryConfig.max_retries
    retry_config,    \* RetryConfig: initial_delay, max_delay, exponential_base
    call_state,      \* "Idle", "Attempting", "Done", "Exhausted", "Failed"
    attempt,         \* tenacity attempt_number of the running call
    attempt_log,     \* history: what each endpoint invocation of the running call did
    sleeps,          \* delays slept by the running call, in order
    call_error,      \* the exception leaving _make_api_request, or NoError
    response,        \* message content of the response returned, or <<>>
    \* generate_summary
    pc,              \* position in the pipeline
    chunk_i,         \* index i of the for loop over chunks (0-based, as in the code)
    chunk_summaries, \* list chunk_summaries
    result,          \* value returned by generate_summary
    raised,          \* TRUE when an exception left generate_summary
    api_requests,    \* history: number of _make_api_request calls made
    all_failed,      \* history: NoError, or the one thing every invocation did, or Mixed
    call_trace,      \* history: the start and the end of every _make_api_request call
    \* generate_keywords
    max_keywords,    \* KeywordsRequest.max_keywords: an int or None
    all_keywords,    \* list all_keywords
    \* verify_input_type
    input_str,       \* the input string
    vpc,             \* "idle", "searching", "returned"
    pending,         \* the search that is in flight: the block that made it, q and type
    searches,        \* history: q and type of every search issued for this input
    last_outcome,    \* history: what the last search that came back did
    vresult,         \* the pair returned: content_type and content_id
    \* OpenAICompatibleClient.__init__ and get_model_config
    model,           \* self.model: the model name from the settings
    model_config,    \* self.model_config: the profile get_model_config returned
    mpc,             \* "unused", "new" (before __init__), "ready"
    \* the process command and process_video / process_playlist / process_channel
    content,         \* what verify_input_type returned for INPUT: content_type and content_id
    overwrite,       \* --overwrite
    dry_run,         \* --dry-run
    max_depth,       \* --max-depth
    limit,           \* limit of a process_playlist call made for a playlist input, 0 for none
    existing_ids,    \* youtube_id of the notes in the output directory
    videos,          \* what YouTube holds for each video ID: title and publishedAt
    files,           \* the output directory: file name -> note
    ppc,             \* position in the command
    exit_code,       \* exit status of the command, -1 while it runs
    playlists_to_process,  \* list playlists_to_process of process_channel (the playlist IDs)
    pl_i,            \* 1-based position of the channel loop in playlists_to_process
    playlist_id,     \* playlist_id of the running process_playlist
    all_videos_items,      \* list all_videos_items of process_playlist (the video ID of each item)
    videos_to_process_ids, \* list videos_to_process_ids of process_playlist
    vid_i,           \* 1-based position of the playlist loop in videos_to_process_ids
    events           \* history: every call of a process_* function, every fetch and write

chunk_vars  == <<transcript, max_chars, overlap, start, chunks, bounds, cpc>>
call_vars   ==
    <<max_retries, retry_config, call_state, attempt, attempt_log, sleeps, call_error, response>>
pipe_vars   ==
    <<pc, chunk_i, chunk_summaries, result, raised, api_requests, all_failed, call_trace>>
verify_vars == <<input_str, vpc, pending, searches, last_outcome, vresult>>
kw_vars     == <<max_keywords, all_keywords>>
cfg_vars    == <<model, model_config, mpc>>
proc_vars   ==
    <<content, overwrite, dry_run, max_depth, limit, existing_ids, videos, files, ppc, exit_code,
      playlists_to_process, pl_i, playlist_id, all_videos_items, videos_to_process_ids,
      vid_i, events>>
vars        == <<chunk_vars, call_vars, pipe_vars, verify_vars, kw_vars, cfg_vars, proc_vars>>

---------------------------------------------------------------------------
(* Bounds of the model.                                                    *)

MaxLen == 12          \* longest text given to the chunker on its own
MaxChars == 11        \* largest max_chars given to the chunker on its own
MaxOverlap == 11      \* largest overlap given to the chunker on its own
MaxIter == 14         \* cap on loop iterations of a run that does not terminate

---------------------------------------------------------------------------
(* Python primitives.                                                      *)

Max2(a, b) == IF a >= b THEN a ELSE b

Min2(a, b) == IF a <= b THEN a ELSE b

SetMax(S) == CHOOSE x \in S : \A y \in S : y <= x

\* A slice index as Python normalises it for a sequence of length n.
PyIndex(i, n) == IF i < 0 THEN Max2(i + n, 0) ELSE Min2(i, n)

\* s[a:b]
PySlice(s, a, b) ==
    LET lo == PyIndex(a, Len(s))
        hi == PyIndex(b, Len(s))
    IN  IF lo >= hi THEN <<>> ELSE SubSeq(s, lo + 1, hi)

\* The pair <<lo, hi>> of s[a:b], with lo = hi for an empty slice.
PySliceBounds(s, a, b) ==
    LET lo == PyIndex(a, Len(s))
        hi == PyIndex(b, Len(s))
    IN  IF lo >= hi THEN <<lo, lo>> ELSE <<lo, hi>>

\* s.find(p): 0-based index of the first occurrence of p in s, or -1.
PyFind(s, p) ==
    LET hits == {i \in 0..(Len(s) - Len(p)) : SubSeq(s, i + 1, i + Len(p)) = p}
    IN  IF hits = {} THEN -1 ELSE CHOOSE i \in hits : \A j \in hits : i <= j

\* s.rfind(p): 0-based index of the last occurrence of p in s, or -1.
PyRFind(s, p) ==
    LET hits == {i \in 0..(Len(s) - Len(p)) : SubSeq(s, i + 1, i + Len(p)) = p}
    IN  IF hits = {} THEN -1 ELSE SetMax(hits)

\* p in s
PyIn(p, s) == PyFind(s, p) # -1

\* int(n * 0.8) for an integer n >= 0
IntOfEightTenths(n) == (8 * n) \div 10

\* None where the program expects a string.
PyNone == <<"None">>

\* None, or an int, where the program expects Optional[int].
NoneInt == [none |-> TRUE, n |-> 0]

IntOf(n) == [none |-> FALSE, n |-> n]

\* s.split(","): lines 514 and 580.
RECURSIVE SplitAtCommas(_)
SplitAtCommas(s) ==
    LET i == PyFind(s, <<",">>)
    IN  IF i = -1 THEN <<s>>
        ELSE <<SubSeq(s, 1, i)>> \o SplitAtCommas(SubSeq(s, i + 2, Len(s)))

Whitespace == {" ", "\n", "\t"}

\* s.strip()
RECURSIVE Strip(_)
Strip(s) ==
    IF s # <<>> /\ s[1] \in Whitespace THEN Strip(Tail(s))
    ELSE IF s # <<>> /\ s[Len(s)] \in Whitespace THEN Strip(SubSeq(s, 1, Len(s) - 1))
    ELSE s

UpperLetters ==
    <<"A", "B", "C", "D", "E", "F", "G", "H", "I", "J", "K", "L", "M",
      "N", "O", "P", "Q", "R", "S", "T", "U", "V", "W", "X", "Y", "Z">>

LowerLetters ==
    <<"a", "b", "c", "d", "e", "f", "g", "h", "i", "j", "k", "l", "m",
      "n", "o", "p", "q", "r", "s", "t", "u", "v", "w", "x", "y", "z">>

\* c.lower() for an ASCII character
LowerChar(c) ==
    IF \E i \in 1..Len(UpperLetters) : UpperLetters[i] = c
    THEN LowerLetters[CHOOSE i \in 1..Len(UpperLetters) : UpperLetters[i] = c]
    ELSE c

\* s.lower()
Lower(s) == [i \in 1..Len(s) |-> LowerChar(s[i])]

---------------------------------------------------------------------------
(* _chunk_transcript(transcript, max_chars, overlap=500)                   *)

DefaultOverlap == 500

Alphabet == {"a", ".", "?", "!", " "}

\* Texts of a given length: filler with at most two adjacent other characters.
TextsOfLen(n) ==
    {[i \in 1..n |-> IF i = p THEN c1 ELSE IF i = p + 1 THEN c2 ELSE "a"] :
        p \in 0..n, c1 \in Alphabet, c2 \in Alphabet}

\* An end that takes max_chars + 1 characters.
ChunkEndInclusive(text, st, mc) ==
    LET end0 == st + mc + 1
        search_start == Max2(st + IntOfEightTenths(mc), 0)
        search_text == PySlice(text, search_start, end0)
        last_period == SetMax({PyRFind(search_text, <<".", " ">>),
                               PyRFind(search_text, <<"!", " ">>),
                               PyRFind(search_text, <<"?", " ">>)})
    IN  IF end0 < Len(text) /\ last_period # -1
        THEN search_start + last_period + 2
        ELSE end0

\* end of the current iteration: lines 185-198
ChunkEnd(text, st, mc) ==
    LET end0 == st + mc
        search_start == Max2(st + IntOfEightTenths(mc), 0)
        search_text == PySlice(text, search_start, end0)
        last_period == SetMax({PyRFind(search_text, <<".", " ">>),
                               PyRFind(search_text, <<"!", " ">>),
                               PyRFind(search_text, <<"?", " ">>)})
    IN  IF end0 < Len(text) /\ last_period # -1
        THEN search_start + last_period + 2
        ELSE end0

\* A start that skips the character at end - ov.
NextStartOffByOne(end, ov) == Max2((end - ov) + 1, end - ov)

\* start of the next iteration: lines 204-207
NextStart(end, ov) == Max2(end - ov, end - ov)

\* Entry of the function, lines 177-181.
ChunkEnter ==
    /\ cpc = "entry"
    /\ IF Len(transcript) <= max_chars
       THEN /\ chunks' = <<transcript>>
            /\ bounds' = <<<<0, Len(transcript)>>>>
            /\ cpc' = "done"
            /\ start' = start
       ELSE /\ chunks' = <<>>
            /\ bounds' = <<>>
            /\ start' = 0
            /\ cpc' = "loop"
    /\ UNCHANGED <<transcript, max_chars, overlap>>
    /\ UNCHANGED <<call_vars, pipe_vars, verify_vars, kw_vars>>
    /\ UNCHANGED <<cfg_vars, proc_vars>>

\* One iteration of the while loop, lines 183-207.
ChunkIterate ==
    /\ cpc = "loop"
    /\ start < Len(transcript)
    /\ Len(chunks) < MaxIter
    /\ LET end == ChunkEnd(transcript, start, max_chars)
       IN  /\ chunks' = Append(chunks, PySlice(transcript, start, end))
           /\ bounds' = Append(bounds, PySliceBounds(transcript, start, end))
           /\ start' = NextStart(end, overlap)
    /\ UNCHANGED <<transcript, max_chars, overlap, cpc>>
    /\ UNCHANGED <<call_vars, pipe_vars, verify_vars, kw_vars>>
    /\ UNCHANGED <<cfg_vars, proc_vars>>

\* Loop exit and return, lines 183 and 209-213.
ChunkReturn ==
    /\ cpc = "loop"
    /\ start >= Len(transcript)
    /\ cpc' = "done"
    /\ UNCHANGED <<transcript, max_chars, overlap, start, chunks, bounds>>
    /\ UNCHANGED <<call_vars, pipe_vars, verify_vars, kw_vars>>
    /\ UNCHANGED <<cfg_vars, proc_vars>>

---------------------------------------------------------------------------
(* _make_api_request: one model call under the tenacity retry decorator.   *)

MaxRetries == 3       \* largest RetryConfig.max_retries tried
MaxCalls == 2         \* direct _make_api_request calls made in SpecRetry

InitialDelay == 1
MaxDelay == 60
ExponentialBase == 2

\* Exceptions the endpoint raises in the model: type(e).__name__ and str(e).
Errors ==
    {[type |-> "APIError", msg |-> "Persistent error"],
     [type |-> "RateLimitError", msg |-> "Rate Limit Error"],
     [type |-> "ValueError", msg |-> "Invalid input"]}

NoError == [type |-> "none", msg |-> ""]

\* The entry of attempt_log for an invocation that returned a response.
Answered == [type |-> "ok", msg |-> ""]

\* Exception and its subclasses: what an "except Exception" clause catches.
ExceptionTypes ==
    {"APIError", "APIConnectionError", "RateLimitError", "timeout", "ConnectionError",
     "ValueError", "TypeError"}

\* An except clause that names the API error classes only.
ExceptAPIError(e) == e.type \in {"APIError", "APIConnectionError", "RateLimitError"}

ExceptException(e) == e.type \in ExceptionTypes

Mixed == [type |-> "mixed", msg |-> ""]

\* retry_if_exception_type((APIError, APIConnectionError, RateLimitError,
\* socket.timeout, ConnectionError))
RetryableTypes ==
    {"APIError", "APIConnectionError", "RateLimitError", "timeout", "ConnectionError"}

\* The catch-all the comment at line 121 says was removed.
IsRetryableCatchAll(e) == e.type \in ExceptionTypes

IsRetryable(e) == e.type \in RetryableTypes

\* A stop condition that forgets the initial attempt.
StopAfterRetries(n, mr) == n >= mr

\* stop_after_attempt(max_retries + 1)
StopAfterAttempt(n, mr) == n >= mr + 1

\* What leaves the call without reraise and without the unwrapping of lines
\* 159-163: tenacity's own RetryError.
RaiseRetryError(e) == [type |-> "RetryError", msg |-> "RetryError"]

\* reraise=True (line 123): when the stop condition is met the exception of
\* the last attempt is raised as it is.
Reraise(e) == e

RECURSIVE Pow(_, _)
Pow(b, k) == IF k <= 0 THEN 1 ELSE b * Pow(b, k - 1)

\* The defaults of RetryConfig, and the settings tried besides them: a
\* max_delay that the second delay reaches, the values of the tests'
\* environment, a delay of zero and a base of one.
DefaultRetryConfig ==
    [initial_delay |-> InitialDelay, max_delay |-> MaxDelay,
     exponential_base |-> ExponentialBase]

RetryConfigs ==
    {DefaultRetryConfig,
     [initial_delay |-> 2, max_delay |-> 3, exponential_base |-> 2],
     [initial_delay |-> 2, max_delay |-> 120, exponential_base |-> 3],
     [initial_delay |-> 0, max_delay |-> 60, exponential_base |-> 2],
     [initial_delay |-> 5, max_delay |-> 60, exponential_base |-> 1]}

\* A wait without the max.
WaitExponentialUncapped(n) ==
    Max2(0, retry_config.initial_delay * Pow(retry_config.exponential_base, n - 1))

\* wait_exponential(multiplier=initial_delay, max=max_delay, exp_base=exp_base)
\* after attempt n
WaitExponential(n) ==
    Max2(0, Min2(retry_config.initial_delay * Pow(retry_config.exponential_base, n - 1),
                 retry_config.max_delay))

\* Decimal digits of a natural number, as str() gives them.
RECURSIVE Str(_)
Str(n) ==
    LET digit == <<"0", "1", "2", "3", "4", "5", "6", "7", "8", "9">>
    IN  IF n < 10 THEN <<digit[n + 1]>> ELSE Str(n \div 10) \o <<digit[(n % 10) + 1]>>

\* The text the endpoint completes the current request with.  The model is a
\* black box: its text is only known to be the answer to that request.
CompletionOf(kind, i) ==
    CASE kind = "section" -> <<"<completion of section ">> \o Str(i + 1) \o <<">">>
      [] kind = "meta"    -> <<"<completion of meta prompt>">>
      [] OTHER            -> <<"<completion>">>

Completion == CompletionOf(pc, chunk_i)

\* Comma-separated lists the endpoint answers a keyword prompt with, and
\* None for a response without content.
kw_text_mixed ==
    <<"A", "I", ",", " ", "a", "i", ",", "M", "a", "c", "h", "i", "n", "e", " ",
      "L", "e", "a", "r", "n", "i", "n", "g">>

kw_text_lower == <<" ", "a", "i", " ", ",", ",", "M", "L", "\n">>

kw_text_blank == <<" ", ",", " ">>

KeywordTexts == {kw_text_mixed, kw_text_lower, kw_text_blank, PyNone}

\* The texts the endpoint may answer the current request with.
Completions ==
    IF pc \in {"kw_single", "kw_section"} THEN KeywordTexts ELSE {Completion}

\* The history of endpoint failures after one more invocation raising e
\* (Answered for a success).
Witnessed(e) ==
    IF all_failed = NoError THEN e
    ELSE IF all_failed = e THEN e ELSE Mixed

\* The entries of call_trace: a call made for the prompt of the given kind
\* ("single", "section", "meta", "direct") and chunk index starts, and it ends
\* by returning a response (Answered) or by raising an exception.
CallStarted(kind, i) ==
    [ev |-> "start", kind |-> kind, i |-> i, out |-> NoError, text |-> <<>>]

\* text is the message content of the response, <<>> when the call raised.
CallEnded(kind, i, out, text) ==
    [ev |-> "end", kind |-> kind, i |-> i, out |-> out, text |-> text]

\* A call that goes on counting where the call before it stopped.
StartCallCarryOver(kind, i) ==
    /\ call_state' = "Attempting"
    /\ call_trace' = Append(call_trace, CallStarted(kind, i))
    /\ attempt' = IF attempt = 0 THEN 1 ELSE attempt
    /\ attempt_log' = <<>>
    /\ sleeps' = <<>>
    /\ call_error' = NoError
    /\ response' = <<>>
    /\ api_requests' = api_requests + 1
    /\ UNCHANGED <<max_retries, retry_config>>

\* Lines 155-158: the call starts with attempt 1.
StartCall(kind, i) ==
    /\ call_state' = "Attempting"
    /\ call_trace' = Append(call_trace, CallStarted(kind, i))
    /\ attempt' = 1
    /\ attempt_log' = <<>>
    /\ sleeps' = <<>>
    /\ call_error' = NoError
    /\ response' = <<>>
    /\ api_requests' = api_requests + 1
    /\ UNCHANGED <<max_retries, retry_config>>

\* Lines 125-141: the endpoint answers this attempt.
AttemptSucceeds ==
    /\ call_state = "Attempting"
    /\ attempt_log' = Append(attempt_log, Answered)
    /\ all_failed' = Witnessed(Answered)
    /\ response' \in Completions
    /\ call_state' = "Done"
    /\ call_trace' = Append(call_trace, CallEnded(pc, chunk_i, Answered, response'))
    /\ UNCHANGED <<max_retries, retry_config, attempt, sleeps, call_error, api_requests>>
    /\ UNCHANGED <<pc, chunk_i, chunk_summaries, result, raised>>
    /\ UNCHANGED <<chunk_vars, verify_vars, kw_vars>>
    /\ UNCHANGED <<cfg_vars, proc_vars>>

\* Lines 106-124 and 142-153: the endpoint raises e on this attempt.
AttemptFails(e) ==
    /\ call_state = "Attempting"
    /\ attempt_log' = Append(attempt_log, e)
    /\ all_failed' = Witnessed(e)
    /\ IF ~IsRetryable(e)
       THEN /\ call_state' = "Failed"
            /\ call_error' = e
            /\ call_trace' = Append(call_trace, CallEnded(pc, chunk_i, e, <<>>))
            /\ UNCHANGED <<attempt, sleeps>>
       ELSE IF StopAfterAttempt(attempt, max_retries)
            THEN /\ call_state' = "Exhausted"
                 /\ call_error' = Reraise(e)
                 /\ call_trace' = Append(call_trace, CallEnded(pc, chunk_i, Reraise(e), <<>>))
                 /\ UNCHANGED <<attempt, sleeps>>
            ELSE /\ sleeps' = Append(sleeps, WaitExponential(attempt))
                 /\ attempt' = attempt + 1
                 /\ UNCHANGED <<call_state, call_error, call_trace>>
    /\ UNCHANGED <<max_retries, retry_config, response, api_requests>>
    /\ UNCHANGED <<pc, chunk_i, chunk_summaries, result, raised>>
    /\ UNCHANGED <<chunk_vars, verify_vars, kw_vars>>
    /\ UNCHANGED <<cfg_vars, proc_vars>>

AttemptRaises == \E e \in Errors : AttemptFails(e)

\* A caller that goes on while its call is still being attempted.
CallOverOrPending == call_state \in {"Done", "Exhausted", "Failed", "Attempting"}

\* _make_api_request has returned or raised: the caller goes on (lines 158-163).
CallOver == call_state \in {"Done", "Exhausted", "Failed"}

\* A caller outside the pipeline invokes _make_api_request.
DirectCall ==
    /\ pc = "direct"
    /\ call_state # "Attempting"
    /\ api_requests < MaxCalls
    /\ StartCall("direct", 0)
    /\ UNCHANGED <<pc, chunk_i, chunk_summaries, result, raised, all_failed>>
    /\ UNCHANGED <<chunk_vars, verify_vars, kw_vars>>
    /\ UNCHANGED <<cfg_vars, proc_vars>>

---------------------------------------------------------------------------
(* generate_summary and its two paths.                                     *)

MaxSpan == 2          \* longest transcript summarized, in multiples of max_transcript_chars
SummaryMaxRetries == 2   \* largest RetryConfig.max_retries of a summarizing client

\* MODEL_CONFIGS[name]["max_transcript_chars"], and DEFAULT_MODEL_CONFIG
ModelMaxChars ==
    [m \in {"gemma3:12b", "llama3:70b"} |-> IF m = "gemma3:12b" THEN 8000 ELSE 10000]

DefaultMaxChars == 15000

\* A transcript of n characters; when mark > 0 it has a sentence end at mark.
TranscriptOf(n, mark) ==
    [i \in 1..n |-> IF mark > 0 /\ i = mark THEN "."
                    ELSE IF mark > 0 /\ i = mark + 1 THEN " " ELSE "a"]

\* Transcripts summarized by a client whose profile allows mc characters.
SummaryTranscripts(mc) ==
    {TranscriptOf(n, mark) :
        n \in {0, 1, mc, mc + 1} \cup {k * mc : k \in 2..MaxSpan},
        mark \in {0, IntOfEightTenths(mc) + 1}}

\* Lines 309-313.
FallbackSummary(e) ==
    <<"## Error Generating Summary\n\n",
      "An error occurred while generating the summary: ", e.type, ": ", e.msg, "\n\n",
      "Please check the logs for more details or try again later with a different model configuration.">>

\* A placeholder that leaves the error out.
SectionPlaceholderBare(e) == <<"*Error processing this section*">>

\* Line 364.
SectionPlaceholder(e) == <<"*Error processing this section: ", e.msg, "*">>

\* Lines 367-370: "\n\n".join of the numbered sections.
RECURSIVE CombinedSummary(_, _, _)
CombinedSummary(sums, i, n) ==
    IF i > Len(sums) THEN <<>>
    ELSE (IF i > 1 THEN <<"\n\n">> ELSE <<>>)
         \o <<"## Section ">> \o Str(i) \o <<"/">> \o Str(n) \o <<" Summary\n">>
         \o sums[i]
         \o CombinedSummary(sums, i + 1, n)

\* A final summary with the sections ahead of the meta-summary.
FinalSummarySectionsFirst(meta, combined) ==
    <<"# Detailed Section Summaries\n\n">> \o combined \o <<"\n\n# Overall Summary\n\n">>
    \o meta

\* Lines 408-413.
FinalSummary(meta, combined) ==
    <<"# Overall Summary\n\n">> \o meta \o <<"\n\n# Detailed Section Summaries\n\n">>
    \o combined

\* Line 420.
SectionsOnly(combined) == <<"# Transcript Section Summaries\n\n">> \o combined

\* A loop that leaves the last chunk out.
HasNextChunkButLast(i, n) == i + 2 < n

\* Line 327: the for loop over enumerate(chunks) has a chunk after index i.
HasNextChunk(i, n) == i + 1 < n

\* A test that sends a transcript of exactly max_transcript_chars to chunking.
NeedsChunkingInclusive(transcript_length, mc) == transcript_length >= mc

\* Line 224.
NeedsChunking(transcript_length, mc) == transcript_length > mc

\* Lines 215-230: generate_summary picks the path.
GenerateSummary ==
    /\ pc = "idle"
    /\ IF NeedsChunking(Len(transcript), max_chars)
       THEN /\ pc' = "chunking"
            /\ cpc' = "entry"
            /\ UNCHANGED <<call_vars, api_requests, call_trace>>
       ELSE /\ pc' = "single"
            /\ StartCall("single", 0)
            /\ UNCHANGED cpc
    /\ UNCHANGED <<transcript, max_chars, overlap, start, chunks, bounds>>
    /\ UNCHANGED <<chunk_i, chunk_summaries, result, raised, all_failed>>
    /\ UNCHANGED <<verify_vars, kw_vars>>
    /\ UNCHANGED <<cfg_vars, proc_vars>>

\* Lines 262-314: the single call returns or raises.
SingleDone ==
    /\ pc = "single"
    /\ CallOver
    /\ IF call_state = "Done"
       THEN result' = response /\ UNCHANGED raised
       ELSE IF ExceptException(call_error)
            THEN result' = FallbackSummary(call_error) /\ UNCHANGED raised
            ELSE raised' = TRUE /\ UNCHANGED result
    /\ pc' = "returned"
    /\ UNCHANGED <<chunk_i, chunk_summaries, api_requests, all_failed, call_trace>>
    /\ UNCHANGED <<chunk_vars, call_vars, verify_vars, kw_vars>>
    /\ UNCHANGED <<cfg_vars, proc_vars>>

\* Lines 322-356: the chunks are there; the call for the first one is made.
SectionsBegin ==
    /\ pc = "chunking"
    /\ cpc = "done"
    /\ chunk_summaries' = <<>>
    /\ chunk_i' = 0
    /\ pc' = "section"
    /\ StartCall("section", 0)
    /\ UNCHANGED <<result, raised, all_failed>>
    /\ UNCHANGED <<chunk_vars, verify_vars, kw_vars>>
    /\ UNCHANGED <<cfg_vars, proc_vars>>

\* Lines 350-423: the call for chunk i returns or raises; then the next chunk,
\* the meta-summary call, or the return of the only chunk's summary.
SectionDone ==
    /\ pc = "section"
    /\ CallOver
    /\ IF call_state # "Done" /\ ~ExceptException(call_error)
       THEN /\ raised' = TRUE
            /\ pc' = "returned"
            /\ UNCHANGED <<chunk_i, chunk_summaries, result, call_vars, api_requests, call_trace>>
       ELSE LET summary == IF call_state = "Done" THEN response
                           ELSE SectionPlaceholder(call_error)
                sums == Append(chunk_summaries, summary)
            IN  /\ chunk_summaries' = sums
                /\ UNCHANGED raised
                /\ IF HasNextChunk(chunk_i, Len(chunks))
                   THEN /\ chunk_i' = chunk_i + 1
                        /\ StartCall("section", chunk_i + 1)
                        /\ UNCHANGED <<pc, result>>
                   ELSE IF Len(chunks) > 1
                        THEN /\ pc' = "meta"
                             /\ StartCall("meta", chunk_i)
                             /\ UNCHANGED <<chunk_i, result>>
                        ELSE /\ result' = sums[1]
                             /\ pc' = "returned"
                             /\ UNCHANGED <<chunk_i, call_vars, api_requests, call_trace>>
    /\ UNCHANGED all_failed
    /\ UNCHANGED <<chunk_vars, verify_vars, kw_vars>>
    /\ UNCHANGED <<cfg_vars, proc_vars>>

\* Lines 398-420: the meta-summary call returns or raises.
MetaDone ==
    /\ pc = "meta"
    /\ CallOver
    /\ LET combined == CombinedSummary(chunk_summaries, 1, Len(chunks))
       IN  IF call_state = "Done"
           THEN result' = FinalSummary(response, combined) /\ UNCHANGED raised
           ELSE IF ExceptException(call_error)
                THEN result' = SectionsOnly(combined) /\ UNCHANGED raised
                ELSE raised' = TRUE /\ UNCHANGED result
    /\ pc' = "returned"
    /\ UNCHANGED <<chunk_i, chunk_summaries, api_requests, all_failed, call_trace>>
    /\ UNCHANGED <<chunk_vars, call_vars, verify_vars, kw_vars>>
    /\ UNCHANGED <<cfg_vars, proc_vars>>

---------------------------------------------------------------------------
(* generate_keywords and its two paths.                                    *)

MaxKeywordCount == 3  \* largest max_keywords tried besides the default
KwMaxRetries == 1     \* largest RetryConfig.max_retries of a keyword-extracting client

DefaultMaxKeywords == 20

\* Values of KeywordsRequest.max_keywords: Optional[int] without constraints.
KeywordCounts ==
    {NoneInt, IntOf(DefaultMaxKeywords)} \cup {IntOf(n) : n \in (-1)..MaxKeywordCount}

\* Transcripts whose keywords a client with a profile of mc characters
\* extracts: empty, at the limit, one character over it (two chunks) and
\* twice the limit (three chunks).
KeywordTranscripts(mc) == {TranscriptOf(n, 0) : n \in {0, mc, mc + 1, mc + mc}}

\* Lines 514 and 580: [kw.strip() for kw in keywords_text.split(',') if kw.strip()]
ParseKeywords(keywords_text) ==
    LET parts == SplitAtCommas(keywords_text)
        stripped == [k \in 1..Len(parts) |-> Strip(parts[k])]
    IN  SelectSeq(stripped, LAMBDA kw : kw # <<>>)

\* A key that tells "AI" from "ai".
KeywordKeyExact(kw) == kw

\* Line 592.
KeywordKey(kw) == Lower(kw)

\* Lines 589-595.
RECURSIVE UniqueKeywords(_, _)
UniqueKeywords(kws, seen) ==
    IF kws = <<>> THEN <<>>
    ELSE IF KeywordKey(Head(kws)) \in seen
         THEN UniqueKeywords(Tail(kws), seen)
         ELSE <<Head(kws)>> \o UniqueKeywords(Tail(kws), seen \cup {KeywordKey(Head(kws))})

\* Line 598: unique_keywords[:request.max_keywords]
FinalKeywords(unique_keywords, mk) ==
    IF mk.none THEN unique_keywords ELSE PySlice(unique_keywords, 0, mk.n)

\* A prompt that is built from max_keywords whatever it is.
ChunkPromptRaisesNever(mk) == FALSE

\* Line 552: min(request.max_keywords, 10) raises TypeError for None.
ChunkPromptRaises(mk) == mk.none

\* Lines 510-514 and 579-580: None has no split; the AttributeError is
\* raised inside the try block.
ContentParses(keywords_text) == keywords_text # PyNone

\* Lines 428-443: generate_keywords picks the path.
GenerateKeywords ==
    /\ pc = "kw_idle"
    /\ IF Len(transcript) > max_chars
       THEN /\ pc' = "kw_chunking"
            /\ cpc' = "entry"
            /\ UNCHANGED <<call_vars, api_requests, call_trace>>
       ELSE /\ pc' = "kw_single"
            /\ StartCall("kw_single", 0)
            /\ UNCHANGED cpc
    /\ UNCHANGED <<transcript, max_chars, overlap, start, chunks, bounds>>
    /\ UNCHANGED <<chunk_i, chunk_summaries, result, raised, all_failed>>
    /\ UNCHANGED <<verify_vars, kw_vars>>
    /\ UNCHANGED <<cfg_vars, proc_vars>>

\* Lines 470-532: the single call returns or raises.
KwSingleDone ==
    /\ pc = "kw_single"
    /\ CallOver
    /\ IF call_state = "Done"
       THEN /\ result' = IF ContentParses(response) THEN ParseKeywords(response) ELSE <<>>
            /\ UNCHANGED raised
       ELSE IF ExceptException(call_error)
            THEN result' = <<>> /\ UNCHANGED raised
            ELSE raised' = TRUE /\ UNCHANGED result
    /\ pc' = "returned"
    /\ UNCHANGED <<chunk_i, chunk_summaries, api_requests, all_failed, call_trace>>
    /\ UNCHANGED <<chunk_vars, call_vars, verify_vars, kw_vars>>
    /\ UNCHANGED <<cfg_vars, proc_vars>>

\* Lines 540-573: the chunks are there; the prompt for the first one is built
\* and its call is made.
KwSectionsBegin ==
    /\ pc = "kw_chunking"
    /\ cpc = "done"
    /\ IF ChunkPromptRaises(max_keywords)
       THEN /\ raised' = TRUE
            /\ pc' = "returned"
            /\ UNCHANGED <<chunk_i, all_keywords, call_vars, api_requests, call_trace>>
       ELSE /\ all_keywords' = <<>>
            /\ chunk_i' = 0
            /\ pc' = "kw_section"
            /\ StartCall("kw_section", 0)
            /\ UNCHANGED raised
    /\ UNCHANGED <<chunk_summaries, result, all_failed, max_keywords>>
    /\ UNCHANGED <<chunk_vars, verify_vars>>
    /\ UNCHANGED <<cfg_vars, proc_vars>>

\* Lines 545-601: the call for chunk i returns or raises; then the next
\* chunk, or the merge of all_keywords.
KwSectionDone ==
    /\ pc = "kw_section"
    /\ CallOver
    /\ IF call_state # "Done" /\ ~ExceptException(call_error)
       THEN /\ raised' = TRUE
            /\ pc' = "returned"
            /\ UNCHANGED <<chunk_i, all_keywords, result, call_vars, api_requests, call_trace>>
       ELSE LET extended == IF call_state = "Done" /\ ContentParses(response)
                            THEN all_keywords \o ParseKeywords(response)
                            ELSE all_keywords
            IN  /\ all_keywords' = extended
                /\ UNCHANGED raised
                /\ IF HasNextChunk(chunk_i, Len(chunks))
                   THEN /\ chunk_i' = chunk_i + 1
                        /\ StartCall("kw_section", chunk_i + 1)
                        /\ UNCHANGED <<pc, result>>
                   ELSE /\ result' = FinalKeywords(UniqueKeywords(extended, {}), max_keywords)
                        /\ pc' = "returned"
                        /\ UNCHANGED <<chunk_i, call_vars, api_requests, call_trace>>
    /\ UNCHANGED <<chunk_summaries, all_failed, max_keywords>>
    /\ UNCHANGED <<chunk_vars, verify_vars>>
    /\ UNCHANGED <<cfg_vars, proc_vars>>

---------------------------------------------------------------------------
(* YouTubeClient.verify_input_type                                         *)

\* The string literals of verify_input_type, character by character.
youtu_be_slash == <<"y", "o", "u", "t", "u", ".", "b", "e", "/">>

youtube_com == <<"y", "o", "u", "t", "u", "b", "e", ".", "c", "o", "m">>

at_sign == <<"@">>

youtube_com_watch ==
    <<"y", "o", "u", "t", "u", "b", "e", ".", "c", "o", "m", "/", "w", "a", "t", "c", "h">>

v_equals == <<"v", "=">>

youtube_com_embed ==
    <<"y", "o", "u", "t", "u", "b", "e", ".", "c", "o", "m", "/", "e", "m", "b", "e", "d",
      "/">>

embed_slash == <<"e", "m", "b", "e", "d", "/">>

youtube_com_shorts ==
    <<"y", "o", "u", "t", "u", "b", "e", ".", "c", "o", "m", "/", "s", "h", "o", "r", "t",
      "s", "/">>

shorts_slash == <<"s", "h", "o", "r", "t", "s", "/">>

youtube_com_v == <<"y", "o", "u", "t", "u", "b", "e", ".", "c", "o", "m", "/", "v", "/">>

v_slash == <<"v", "/">>

m_youtube_com == <<"m", ".", "y", "o", "u", "t", "u", "b", "e", ".", "c", "o", "m", "/">>

youtube_com_web ==
    <<"y", "o", "u", "t", "u", "b", "e", ".", "c", "o", "m", "/", "w", "e", "b", "/">>

web_slash == <<"w", "e", "b", "/">>

youtube_com_c == <<"y", "o", "u", "t", "u", "b", "e", ".", "c", "o", "m", "/", "c", "/">>

c_slash == <<"c", "/">>

youtube_com_channel ==
    <<"y", "o", "u", "t", "u", "b", "e", ".", "c", "o", "m", "/", "c", "h", "a", "n", "n",
      "e", "l", "/">>

channel_slash == <<"c", "h", "a", "n", "n", "e", "l", "/">>

youtube_com_playlist ==
    <<"y", "o", "u", "t", "u", "b", "e", ".", "c", "o", "m", "/", "p", "l", "a", "y", "l",
      "i", "s", "t">>

list_equals == <<"l", "i", "s", "t", "=">>

\* Pieces of the inputs tried.
sample_https_scheme == <<"h", "t", "t", "p", "s", ":", "/", "/">>

sample_www_host ==
    <<"w", "w", "w", ".", "y", "o", "u", "t", "u", "b", "e", ".", "c", "o", "m">>

sample_bare_host == <<"y", "o", "u", "t", "u", "b", "e", ".", "c", "o", "m">>

sample_mobile_host == <<"m", ".", "y", "o", "u", "t", "u", "b", "e", ".", "c", "o", "m">>

sample_short_host == <<"y", "o", "u", "t", "u", ".", "b", "e">>

sample_video_id == <<"d", "Q", "w", "4", "w", "9", "W", "g", "X", "c", "Q">>

sample_playlist_short == <<"P", "L", "x", "x", "x">>

sample_playlist_long ==
    <<"P", "L", "l", "a", "N", "8", "8", "a", "7", "y", "2", "_", "p", "l", "e", "c", "Y",
      "o", "J", "x", "v", "R", "F", "T", "L", "H", "V", "b", "I", "V", "A", "O", "o", "S">>

sample_channel_id ==
    <<"U", "C", "_", "x", "5", "X", "G", "1", "O", "V", "2", "P", "6", "u", "Z", "Z", "5",
      "F", "S", "M", "9", "T", "t", "w">>

sample_handle_name ==
    <<"G", "o", "o", "g", "l", "e", "D", "e", "v", "e", "l", "o", "p", "e", "r", "s">>

sample_some_input == <<"s", "o", "m", "e", "_", "i", "n", "p", "u", "t">>

sample_invalid_input ==
    <<"i", "n", "v", "a", "l", "i", "d", "_", "i", "n", "p", "u", "t", "_",
      "t", "h", "a", "t", "_", "r", "e", "t", "u", "r", "n", "s", "_", "n",
      "o", "_", "r", "e", "s", "u", "l", "t", "s">>

sample_free_text == <<"h", "o", "w", " ", "t", "o", " ", "c", "o", "o", "k">>

sample_short_word == <<"a", "b", "c">>

sample_watch_path == <<"/", "w", "a", "t", "c", "h", "?">>

sample_playlist_path == <<"/", "p", "l", "a", "y", "l", "i", "s", "t", "?">>

sample_time_param == <<"t", "=", "4", "2">>

sample_tracking_param == <<"s", "i", "=", "t", "r", "a", "c", "k", "i", "n", "g">>

sample_embed_path == <<"/", "e", "m", "b", "e", "d", "/">>

sample_shorts_path == <<"/", "s", "h", "o", "r", "t", "s", "/">>

sample_v_path == <<"/", "v", "/">>

sample_web_path == <<"/", "w", "e", "b", "/">>

sample_channel_path == <<"/", "c", "h", "a", "n", "n", "e", "l", "/">>

sample_c_path == <<"/", "c", "/">>

\* The character class [a-zA-Z0-9_-]
IdChars ==
    {"a", "b", "c", "d", "e", "f", "g", "h", "i", "j", "k", "l", "m", "n", "o", "p", "q",
     "r", "s", "t", "u", "v", "w", "x", "y", "z", "A", "B", "C", "D", "E", "F", "G", "H",
     "I", "J", "K", "L", "M", "N", "O", "P", "Q", "R", "S", "T", "U", "V", "W", "X", "Y",
     "Z", "0", "1", "2", "3", "4", "5", "6", "7", "8", "9", "_", "-"}


\* Characters that end a group [^/?&#]+, and a group [^&]+
UrlStops == {"/", "?", "&", "#"}

AmpStop == {"&"}

\* re.search(prefix + "([^stops]+)", s).group(1): the run of characters that
\* are not stops after the leftmost occurrence of prefix that has one; PyNone
\* when there is no match.
ReSearch(s, prefix, stops) ==
    LET n == Len(prefix)
        hits == {i \in 0..(Len(s) - n - 1) :
                    SubSeq(s, i + 1, i + n) = prefix /\ s[i + n + 1] \notin stops}
    IN  IF hits = {} THEN PyNone
        ELSE LET i == CHOOSE h \in hits : \A j \in hits : h <= j
                 first == i + n + 1
                 last == SetMax({j \in first..Len(s) :
                                    \A k \in first..j : s[k] \notin stops})
             IN  SubSeq(s, first, last)

\* "$" matches at the end of the string and before a newline that ends it.
BeforeDollar(s) ==
    IF Len(s) > 0 /\ s[Len(s)] = "\n" THEN {s, SubSeq(s, 1, Len(s) - 1)} ELSE {s}

AllIdChars(s, from) == \A i \in from..Len(s) : s[i] \in IdChars

\* A video ID pattern whose character class lacks "_" and "-".
IsSimpleVideoIdAlnum(s) ==
    \E t \in BeforeDollar(s) : Len(t) = 11 /\ \A i \in 1..11 : t[i] \in IdChars \ {"_", "-"}

\* re.match(r'^[a-zA-Z0-9_-]{11}$', s), line 337
IsSimpleVideoId(s) == \E t \in BeforeDollar(s) : Len(t) = 11 /\ AllIdChars(t, 1)

\* re.match(r'^PL[a-zA-Z0-9_-]{16,}$', s) or re.match(r'^[a-zA-Z0-9_-]{9,}$', s), line 342
IsPlaylistIdPattern(s) ==
    \/ \E t \in BeforeDollar(s) :
          Len(t) >= 18 /\ t[1] = "P" /\ t[2] = "L" /\ AllIdChars(t, 3)
    \/ \E t \in BeforeDollar(s) : Len(t) >= 9 /\ AllIdChars(t, 1)

\* re.match(r'^UC[a-zA-Z0-9_-]{22}$', s), line 347
IsChannelIdPattern(s) ==
    \E t \in BeforeDollar(s) : Len(t) = 24 /\ t[1] = "U" /\ t[2] = "C" /\ AllIdChars(t, 3)

\* What a stretch of the function ends in: a return, or a search to wait for.
Ret(b, t, id) == [kind |-> "return", block |-> b, type |-> t, text |-> id]

Ask(b, t, q) == [kind |-> "search", block |-> b, type |-> t, text |-> q]

Fall == [kind |-> "fall", block |-> "", type |-> "", text |-> <<>>]

NotFound(b) == Ret(b, "None", PyNone)

\* An "if <literal> in input_str" block that returns the group of a regex.
PatternBlock(b, s, guard, prefix, stops, t) ==
    IF guard
    THEN LET g == ReSearch(s, prefix, stops)
         IN  IF g # PyNone THEN Ret(b, t, g) ELSE Fall
    ELSE Fall

\* The blocks of the function in the order of the source, lines 164-361.
Block(k, s) ==
    CASE k = 1 ->   \* lines 164-171
            PatternBlock("youtu.be", s, PyIn(youtu_be_slash, s),
                         youtu_be_slash, UrlStops, "video")
      [] k = 2 ->   \* lines 174-187
            IF PyIn(youtube_com, s) /\ PyIn(at_sign, s)
            THEN LET handle == ReSearch(s, at_sign, UrlStops)
                 IN  IF handle # PyNone
                     THEN Ask("handle_url", "channel", at_sign \o handle)
                     ELSE Fall
            ELSE Fall
      [] k = 3 ->   \* lines 226-231
            PatternBlock("watch", s, PyIn(youtube_com_watch, s), v_equals, AmpStop, "video")
      [] k = 4 ->   \* lines 234-239
            PatternBlock("embed", s, PyIn(youtube_com_embed, s),
                         embed_slash, UrlStops, "video")
      [] k = 5 ->   \* lines 242-247
            PatternBlock("shorts", s, PyIn(youtube_com_shorts, s),
                         shorts_slash, UrlStops, "video")
      [] k = 6 ->   \* lines 250-255
            PatternBlock("v", s, PyIn(youtube_com_v, s), v_slash, UrlStops, "video")
      [] k = 7 ->   \* lines 258-263
            PatternBlock("mobile", s, PyIn(m_youtube_com, s), v_equals, AmpStop, "video")
      [] k = 8 ->   \* lines 266-271
            PatternBlock("web", s, PyIn(youtube_com_web, s), web_slash, UrlStops, "video")
      [] k = 9 ->   \* lines 274-288
            IF PyIn(at_sign, s)
            THEN LET handle == ReSearch(s, at_sign, UrlStops)
                 IN  IF handle # PyNone
                     THEN Ask("handle", "channel", at_sign \o handle)
                     ELSE Fall
            ELSE Fall
      [] k = 10 ->  \* lines 299-311
            IF PyIn(youtube_com_c, s)
            THEN LET channel_name == ReSearch(s, c_slash, UrlStops)
                 IN  IF channel_name # PyNone
                     THEN Ask("custom", "channel", channel_name)
                     ELSE Fall
            ELSE Fall
      [] k = 11 ->  \* lines 322-327
            PatternBlock("channel", s, PyIn(youtube_com_channel, s),
                         channel_slash, UrlStops, "channel")
      [] k = 12 ->  \* lines 330-335
            PatternBlock("playlist", s,
                         PyIn(youtube_com_playlist, s) \/ PyIn(list_equals, s),
                         list_equals, AmpStop, "playlist")
      [] k = 13 ->  \* lines 337-339
            IF IsSimpleVideoId(s) THEN Ret("video_id", "video", s) ELSE Fall
      [] k = 14 ->  \* lines 342-344
            IF IsPlaylistIdPattern(s) THEN Ret("playlist_id", "playlist", s) ELSE Fall
      [] k = 15 ->  \* lines 347-349
            IF IsChannelIdPattern(s) THEN Ret("channel_id", "channel", s) ELSE Fall
      [] OTHER ->   \* lines 352-361
            Ask("fallback", "video,playlist,channel", s)

LastBlock == 16

\* Run the function from block k to its next return or search.
RECURSIVE RunFrom(_, _)
RunFrom(k, s) ==
    LET r == Block(k, s)
    IN  IF r.kind = "fall" /\ k < LastBlock THEN RunFrom(k + 1, s) ELSE r

\* What search().list(...).execute() does: it raises, or it returns a response
\* whose items hold the "id" part of each hit.
NoItem == [kind |-> "None", videoId |-> PyNone, playlistId |-> PyNone, channelId |-> PyNone]

Hit(k, field, id) ==
    [kind |-> k,
     videoId |-> IF field = "videoId" THEN id ELSE PyNone,
     playlistId |-> IF field = "playlistId" THEN id ELSE PyNone,
     channelId |-> IF field = "channelId" THEN id ELSE PyNone]

SearchRaises == [raises |-> TRUE, items |-> <<>>]

SearchItems(items) == [raises |-> FALSE, items |-> items]

SearchOutcomes ==
    {SearchRaises, SearchItems(<<>>), SearchItems(<<NoItem>>)}
    \cup {SearchItems(<<Hit(k, f, id)>>) :
            k \in {"youtube#video", "youtube#playlist", "youtube#channel", "youtube#other"},
            f \in {"videoId", "playlistId", "channelId"},
            id \in {sample_video_id, sample_playlist_long, sample_channel_id, <<>>}}

\* A test that takes the empty string for an ID.
IsNotNone(x) == x # PyNone

\* if x: for an optional string
Truthy(x) == x # PyNone /\ x # <<>>

\* items and items[0].get("id", {}).get("channelId"), lines 192-199 and 290-294
ChannelIdOf(o) == IF o.items # <<>> THEN o.items[1].channelId ELSE PyNone

\* Lines 363-391: the top hit of the fallback search is decoded.
DecodeTopHit(o) ==
    IF o.items = <<>> THEN NotFound("fallback")
    ELSE LET top == o.items[1]
         IN  CASE top.kind = "youtube#video" ->
                     IF Truthy(top.videoId) THEN Ret("fallback", "video", top.videoId)
                     ELSE NotFound("fallback")
               [] top.kind = "youtube#playlist" ->
                     IF Truthy(top.playlistId)
                     THEN Ret("fallback", "playlist", top.playlistId)
                     ELSE NotFound("fallback")
               [] top.kind = "youtube#channel" ->
                     IF Truthy(top.channelId) THEN Ret("fallback", "channel", top.channelId)
                     ELSE NotFound("fallback")
               [] OTHER -> NotFound("fallback")

\* The function resumes after the search of block b came back with o.
AfterSearch(b, o, s) ==
    CASE b = "handle_url" ->       \* lines 187-212 and 222-223
            IF o.raises THEN RunFrom(3, s)
            ELSE IF Truthy(ChannelIdOf(o)) THEN Ret(b, "channel", ChannelIdOf(o))
            ELSE Ask("handle_url_alt", "channel", ReSearch(s, at_sign, UrlStops))
      [] b = "handle_url_alt" ->   \* lines 212-223
            IF ~o.raises /\ Truthy(ChannelIdOf(o)) THEN Ret(b, "channel", ChannelIdOf(o))
            ELSE RunFrom(3, s)
      [] b = "handle" ->           \* lines 288-296
            IF ~o.raises /\ Truthy(ChannelIdOf(o)) THEN Ret(b, "channel", ChannelIdOf(o))
            ELSE RunFrom(10, s)
      [] b = "custom" ->           \* lines 311-319
            IF ~o.raises /\ Truthy(ChannelIdOf(o)) THEN Ret(b, "channel", ChannelIdOf(o))
            ELSE RunFrom(11, s)
      [] OTHER ->                  \* lines 361-396
            IF o.raises THEN NotFound("fallback") ELSE DecodeTopHit(o)

\* The function goes on to r: it returns, or it issues a search and waits.
Proceed(r) ==
    IF r.kind = "return"
    THEN /\ vresult' = [type |-> r.type, id |-> r.text]
         /\ vpc' = "returned"
         /\ UNCHANGED <<pending, searches>>
    ELSE /\ pending' = [block |-> r.block, q |-> r.text, type |-> r.type]
         /\ searches' = Append(searches, [q |-> r.text, type |-> r.type])
         /\ vpc' = "searching"
         /\ UNCHANGED vresult

\* verify_input_type(input_str) is called.
VerifyInputType ==
    /\ vpc = "idle"
    /\ Proceed(RunFrom(1, input_str))
    /\ UNCHANGED <<input_str, last_outcome>>
    /\ UNCHANGED <<chunk_vars, call_vars, pipe_vars, kw_vars>>
    /\ UNCHANGED <<cfg_vars, proc_vars>>

\* The search in flight comes back.
SearchResponds ==
    /\ vpc = "searching"
    /\ \E o \in SearchOutcomes :
          /\ Proceed(AfterSearch(pending.block, o, input_str))
          /\ last_outcome' = o
    /\ UNCHANGED input_str
    /\ UNCHANGED <<chunk_vars, call_vars, pipe_vars, kw_vars>>
    /\ UNCHANGED <<cfg_vars, proc_vars>>

\* Inputs.
SampleIdChars == {"a", "Z", "0", "_", "-", "U", "C", "P", "L"}

\* Strings of n characters of [a-zA-Z0-9_-]: one character repeated, with at
\* most one position holding another.
IdStrings(n) ==
    {[i \in 1..n |-> IF i = p THEN d ELSE c] :
        p \in 0..n, c \in SampleIdChars, d \in SampleIdChars}

Hosts == {sample_www_host, sample_bare_host, sample_mobile_host}

Schemes == {<<>>, sample_https_scheme}

Amp == <<"&">>

\* Watch URLs that carry both a v= and a list= parameter.
WatchPlaylistUrls ==
    {scheme \o host \o sample_watch_path \o query :
        scheme \in Schemes, host \in Hosts,
        query \in UNION {{v_equals \o sample_video_id \o Amp \o list_equals \o l,
                          list_equals \o l \o Amp \o v_equals \o sample_video_id,
                          v_equals \o sample_video_id \o Amp \o sample_time_param
                              \o Amp \o list_equals \o l} :
                         l \in {sample_playlist_short, sample_playlist_long}}}

OtherUrls ==
    UNION {{scheme \o host \o sample_watch_path \o v_equals \o sample_video_id,
            scheme \o host \o sample_watch_path \o v_equals \o sample_video_id
                \o <<"#">> \o sample_time_param,
            scheme \o host \o sample_playlist_path \o list_equals \o sample_playlist_long,
            scheme \o host \o sample_playlist_path \o list_equals \o sample_playlist_long
                \o Amp \o sample_tracking_param,
            scheme \o host \o sample_embed_path \o sample_video_id,
            scheme \o host \o sample_shorts_path \o sample_video_id,
            scheme \o host \o sample_v_path \o sample_video_id,
            scheme \o host \o sample_web_path \o sample_video_id,
            scheme \o host \o sample_channel_path \o sample_channel_id,
            scheme \o host \o sample_c_path \o sample_handle_name,
            scheme \o host \o <<"/">> \o at_sign \o sample_handle_name,
            scheme \o host \o <<"/">> \o at_sign,
            scheme \o sample_short_host \o <<"/">> \o sample_video_id,
            scheme \o sample_short_host \o <<"/">> \o sample_video_id
                \o <<"?">> \o sample_time_param} :
           scheme \in Schemes, host \in Hosts}

BareInputs ==
    IdStrings(11) \cup {<<"U", "C">> \o t : t \in IdStrings(22)}
    \cup {<<"P", "L">> \o t : t \in IdStrings(16)}
    \cup {sample_video_id, sample_channel_id, sample_playlist_long, sample_playlist_short,
          sample_some_input, sample_invalid_input, sample_free_text,
          sample_short_word,
          at_sign \o sample_handle_name, <<>>}

VerifyInputs == WatchPlaylistUrls \cup OtherUrls \cup BareInputs

---------------------------------------------------------------------------
(* get_model_config and the constructor of the client.                     *)

model_gemma_3b == <<"g", "e", "m", "m", "a", ":", "3", "b">>

model_gemma_7b == <<"g", "e", "m", "m", "a", ":", "7", "b">>

model_gemma3_1b == <<"g", "e", "m", "m", "a", "3", ":", "1", "b">>

model_gemma3_12b == <<"g", "e", "m", "m", "a", "3", ":", "1", "2", "b">>

model_qwen3_30b_a3b ==
    <<"q", "w", "e", "n", "3", ":", "3", "0", "b", "-", "a", "3", "b">>

model_llama3_8b == <<"l", "l", "a", "m", "a", "3", ":", "8", "b">>

model_llama3_70b == <<"l", "l", "a", "m", "a", "3", ":", "7", "0", "b">>

model_gpt_3_5_turbo ==
    <<"g", "p", "t", "-", "3", ".", "5", "-", "t", "u", "r", "b", "o">>

model_gpt_4 == <<"g", "p", "t", "-", "4">>

model_gemini_pro == <<"g", "e", "m", "i", "n", "i", "-", "p", "r", "o">>

model_gemini_2_5_flash_preview ==
    <<"g", "e", "m", "i", "n", "i", "-", "2", ".", "5", "-", "f", "l", "a",
      "s", "h", "-", "p", "r", "e", "v", "i", "e", "w">>

\* MODEL_CONFIGS in the order of its declaration (a dict keeps it), lines 11-72.
MODEL_CONFIGS ==
    <<[name |-> model_gemma_3b, timeout |-> 180, max_transcript_chars |-> 20000,
       description |-> "Lightweight 3B model, good for basic summaries"],
      [name |-> model_gemma_7b, timeout |-> 240, max_transcript_chars |-> 15000,
       description |-> "Medium 7B model, balanced performance"],
      [name |-> model_gemma3_1b, timeout |-> 180, max_transcript_chars |-> 20000,
       description |-> "Lightweight Gemma 3 1B model, good for basic summaries"],
      [name |-> model_gemma3_12b, timeout |-> 600, max_transcript_chars |-> 8000,
       description |-> "Large 12B model, better quality but slower"],
      [name |-> model_qwen3_30b_a3b, timeout |-> 480, max_transcript_chars |-> 15000,
       description |-> "Large 30B model, high quality with good performance"],
      [name |-> model_llama3_8b, timeout |-> 240, max_transcript_chars |-> 15000,
       description |-> "Medium 8B model, good all-around performance"],
      [name |-> model_llama3_70b, timeout |-> 600, max_transcript_chars |-> 10000,
       description |-> "Very large 70B model, high quality but very slow"],
      [name |-> model_gpt_3_5_turbo, timeout |-> 60, max_transcript_chars |-> 25000,
       description |-> "Fast OpenAI model with good performance"],
      [name |-> model_gpt_4, timeout |-> 120, max_transcript_chars |-> 20000,
       description |-> "High-quality OpenAI model"],
      [name |-> model_gemini_pro, timeout |-> 120, max_transcript_chars |-> 20000,
       description |-> "Google's Gemini Pro model"],
      [name |-> model_gemini_2_5_flash_preview, timeout |-> 120, max_transcript_chars |-> 25000,
       description |-> "Google's Gemini 2.5 Flash Preview model"]>>

\* The value stored under a key: the entry without the key.
ConfigOf(entry) ==
    [timeout |-> entry.timeout, max_transcript_chars |-> entry.max_transcript_chars,
     description |-> entry.description]

\* Lines 75-79.
DEFAULT_MODEL_CONFIG ==
    [timeout |-> 180, max_transcript_chars |-> DefaultMaxChars,
     description |-> "Default configuration for unknown models"]

\* A partial match that compares the characters as they are.
PartialMatchExactCase(model_name, known_model) == PyIn(model_name, known_model)

\* Line 105: model_name.lower() in known_model.lower()
PartialMatch(model_name, known_model) == PyIn(Lower(model_name), Lower(known_model))

\* Lines 104-109: the for loop over MODEL_CONFIGS from its k-th key on, and the
\* default of lines 111-113 when the loop ends.
RECURSIVE FirstPartialMatch(_, _)
FirstPartialMatch(model_name, k) ==
    IF k > Len(MODEL_CONFIGS) THEN DEFAULT_MODEL_CONFIG
    ELSE IF PartialMatch(model_name, MODEL_CONFIGS[k].name) THEN ConfigOf(MODEL_CONFIGS[k])
    ELSE FirstPartialMatch(model_name, k + 1)

\* get_model_config(model_name), lines 81-113.
get_model_config(model_name) ==
    IF \E k \in 1..Len(MODEL_CONFIGS) : MODEL_CONFIGS[k].name = model_name
    THEN ConfigOf(MODEL_CONFIGS[CHOOSE k \in 1..Len(MODEL_CONFIGS) :
                                    MODEL_CONFIGS[k].name = model_name])
    ELSE FirstPartialMatch(model_name, 1)

NoConfig == [timeout |-> 0, max_transcript_chars |-> 0, description |-> ""]

\* The slices s[i:j] of a string.
Substrings(s) == {SubSeq(s, i, j) : i \in 1..(Len(s) + 1), j \in 0..Len(s)}

UpperChar(c) ==
    IF \E i \in 1..Len(LowerLetters) : LowerLetters[i] = c
    THEN UpperLetters[CHOOSE i \in 1..Len(LowerLetters) : LowerLetters[i] = c]
    ELSE c

Upper(s) == [i \in 1..Len(s) |-> UpperChar(s[i])]

model_mistral == <<"m", "i", "s", "t", "r", "a", "l">>

model_gpt_4o == <<"g", "p", "t", "-", "4", "o">>

model_Llama3 == <<"L", "l", "a", "m", "a", "3">>

\* Model names a client is configured with: the known keys, parts of keys,
\* the same in capitals, and names that no key contains.
ModelNames ==
    LET known == {MODEL_CONFIGS[k].name : k \in 1..Len(MODEL_CONFIGS)}
        parts == UNION {Substrings(n) : n \in {model_llama3_70b, model_gpt_4, model_gemma3_12b}}
    IN  known \cup parts \cup {Upper(n) : n \in known \cup parts}
        \cup {model_mistral, model_gpt_4o, model_Llama3}

\* Transcripts around the budget of every profile.
ProfileTranscripts ==
    {TranscriptOf(n + d, 0) :
        n \in {MODEL_CONFIGS[k].max_transcript_chars : k \in 1..Len(MODEL_CONFIGS)},
        d \in {0, 1}}

\* OpenAICompatibleClient.__init__, lines 33-93: the profile is looked up and
\* its max_transcript_chars kept (lines 53-54); the client is ready for
\* generate_summary.
ClientInit ==
    /\ mpc = "new"
    /\ model_config' = get_model_config(model)
    /\ max_chars' = model_config'.max_transcript_chars
    /\ mpc' = "ready"
    /\ pc' = "idle"
    /\ UNCHANGED model
    /\ UNCHANGED <<transcript, overlap, start, chunks, bounds, cpc>>
    /\ UNCHANGED <<chunk_i, chunk_summaries, result, raised, api_requests, all_failed, call_trace>>
    /\ UNCHANGED <<call_vars, verify_vars, kw_vars, proc_vars>>

---------------------------------------------------------------------------
(* The process command (main.py) and process_video, process_playlist and   *)
(* process_channel (processor.py; main.py holds the same three functions). *)

MaxVideos == 2        \* most items in a playlist
MaxPlaylists == 2     \* most playlists of a channel
MaxDepth == 1         \* largest --max-depth
MaxLimit == 2         \* largest limit given to process_playlist
MaxNoteCalls == 2     \* most process_video calls made one after the other in SpecNotes

\* An item that carries no ID: item.get(...).get("videoId") or pl.get("id") is None.
MissingId == 0

ContentTypes == {"video", "playlist", "channel"}

NoContent == [type |-> "None", id |-> MissingId]

\* Pairs verify_input_type returns; videos, playlists and channels are numbered.
VerifyResults == {NoContent} \cup {[type |-> t, id |-> 1] : t \in ContentTypes}

\* detect_content_type: main.py lines 25-39, processor.py lines 34-54.
detect_content_type(r) ==
    IF r.type # "None" /\ r.id # MissingId THEN r ELSE NoContent

\* main.py line 278: if not content_type or not content_id
Unresolved(c) == c.type = "None" \/ c.id = MissingId

\* A command that reports success whatever happened.
ExitStatusZero(reason) == 0

\* The status the command exits with: sys.exit(1) at main.py lines 259, 270,
\* 279, 306 and 312, sys.exit(0) at line 293, and 0 when process returns.
ExitStatus(reason) ==
    CASE reason = "mkdir_error"  -> 1
      [] reason = "client_error" -> 1
      [] reason = "not_found"    -> 1
      [] reason = "dry_run"      -> 0
      [] reason = "unsupported"  -> 1
      [] reason = "error"        -> 1
      [] reason = "complete"     -> 0

Event(op, id, out) ==
    [op |-> op, id |-> id, out |-> out, overwrite |-> FALSE, existing |-> FALSE]

\* The call process_video(video_id, ..., overwrite) and whether the directory
\* holds a note of that video when it is made.
VideoCall(video_id, ow, existing) ==
    [op |-> "process_video", id |-> video_id, out |-> "call",
     overwrite |-> ow, existing |-> existing]

\* What the collaborators of one process_video call do: get_video_details
\* raises, returns nothing usable, or returns the metadata; get_transcript
\* returns or raises; write_video_note (which calls the model) returns or raises.
VideoOutcomes ==
    {[details |-> d, transcript |-> "", write |-> ""] : d \in {"raise", "empty"}}
    \cup {[details |-> "ok", transcript |-> t, write |-> w] :
            t \in {"ok", "raise"}, w \in {"ok", "raise"}}

\* A skip test that does not look at overwrite.
ShouldSkipDespiteOverwrite(ow, video_id, existing) == video_id \in existing

\* processor.py line 115: if not overwrite and video_id in existing_ids
ShouldSkip(ow, video_id, existing) == ~ow /\ video_id \in existing

\* A try block that ends before the note is written.
CaughtInProcessVideoFetchOnly(call) == call = "get_video_details"

\* processor.py lines 119-154: both calls are inside try ... except Exception.
CaughtInProcessVideo(call) == call \in {"get_video_details", "write_video_note"}

\* The calls one process_video makes, in order (lines 103-150).  A failing
\* get_transcript is caught at line 142 and the note is written without it.
ProcessVideoEvents(video_id, ow, existing, o) ==
    <<VideoCall(video_id, ow, video_id \in existing)>>
    \o IF ShouldSkip(ow, video_id, existing) THEN <<>>
       ELSE <<Event("get_video_details", video_id, o.details)>>
            \o IF o.details # "ok" THEN <<>>
               ELSE <<Event("get_transcript", video_id, o.transcript),
                      Event("write_video_note", video_id, o.write)>>

\* An exception leaves process_video.
VideoRaises(video_id, ow, existing, o) ==
    /\ ~ShouldSkip(ow, video_id, existing)
    /\ \/ o.details = "raise" /\ ~CaughtInProcessVideo("get_video_details")
       \/ o.details = "ok" /\ o.write = "raise" /\ ~CaughtInProcessVideo("write_video_note")

\* The note was written.
VideoWritten(video_id, ow, existing, o) ==
    ~ShouldSkip(ow, video_id, existing) /\ o.details = "ok" /\ o.write = "ok"

\* Titles and publication times of videos; the first two titles differ and
\* have the same slug.
title_my_talk == <<"M", "y", " ", "T", "a", "l", "k">>

title_my_talk_2 == <<"m", "y", " ", "t", "a", "l", "k", "!", "!">>

title_other == <<"O", "t", "h", "e", "r", " ", "1">>

published_jan_1 ==
    <<"2", "0", "2", "4", "-", "0", "1", "-", "0", "1", "T", "0", "8", ":", "0", "0", ":",
      "0", "0", "Z">>

published_jan_1_late ==
    <<"2", "0", "2", "4", "-", "0", "1", "-", "0", "1", "T", "2", "0", ":", "3", "0", ":",
      "0", "0", "Z">>

published_jan_2 ==
    <<"2", "0", "2", "4", "-", "0", "1", "-", "0", "2", "T", "0", "8", ":", "0", "0", ":",
      "0", "0", "Z">>

Snippets ==
    {[title |-> t, publishedAt |-> d] :
        t \in {title_my_talk, title_my_talk_2, title_other},
        d \in {published_jan_1, published_jan_1_late, published_jan_2}}

\* The item get_video_details returns for video_id (youtube_client.py lines
\* 124-128): a videos.list resource.  Its ID is the top-level "id"; its
\* contentDetails describe the video file and hold no "videoId".
VideoItem(video_id) ==
    [id |-> video_id, snippet |-> videos[video_id], contentDetails |-> [duration |-> "PT1M"]]

\* markdown_writer.py line 38: video_meta.get("contentDetails", {}).get("videoId")
NoteVideoId(video_meta) ==
    IF "contentDetails" \in DOMAIN video_meta /\ "videoId" \in DOMAIN video_meta.contentDetails
    THEN video_meta.contentDetails.videoId
    ELSE MissingId

SlugChars ==
    {LowerLetters[k] : k \in 1..Len(LowerLetters)}
    \cup {"0", "1", "2", "3", "4", "5", "6", "7", "8", "9"}

\* re.sub(r"[^a-z0-9]+", "-", text): every run of other characters becomes one "-".
RECURSIVE SubRuns(_, _)
SubRuns(text, in_run) ==
    IF text = <<>> THEN <<>>
    ELSE IF Head(text) \in SlugChars THEN <<Head(text)>> \o SubRuns(Tail(text), FALSE)
    ELSE (IF in_run THEN <<>> ELSE <<"-">>) \o SubRuns(Tail(text), TRUE)

\* text.strip("-")
RECURSIVE StripDashes(_)
StripDashes(text) ==
    IF text # <<>> /\ Head(text) = "-" THEN StripDashes(Tail(text))
    ELSE IF text # <<>> /\ text[Len(text)] = "-" THEN StripDashes(SubSeq(text, 1, Len(text) - 1))
    ELSE text

\* utils.py lines 3-7.
slugify(text) == StripDashes(SubRuns(Lower(text), FALSE))

\* markdown_writer.py lines 176-177: f"{date_published[:10]}-{slug}.md"
NoteFileName(video_meta) ==
    PySlice(video_meta.snippet.publishedAt, 0, 10) \o <<"-">>
    \o slugify(video_meta.snippet.title) \o <<".", "m", "d">>

\* The note of a video as it stands in a file: the youtube_id of its
\* frontmatter (line 51) and, for the record, the video it was written for.
NoteOf(video_meta) == [youtube_id |-> NoteVideoId(video_meta), video |-> video_meta.id]

\* markdown_writer.py lines 175-185: open(filepath, "w") creates the file or
\* replaces what it held.
write_video_note(dir, video_meta) ==
    LET filename == NoteFileName(video_meta)
    IN  [f \in DOMAIN dir \cup {filename} |->
            IF f = filename THEN NoteOf(video_meta) ELSE dir[f]]

\* processor.py lines 56-101: the youtube_id of every note that has the key,
\* None (MissingId) included.
get_existing_video_ids(dir) == {dir[f].youtube_id : f \in DOMAIN dir}

\* A note that is in the directory before anything is written: it carries the
\* ID of its video and has a name of its own.
EarlierNotes(ids) ==
    [f \in {<<"n", "o", "t", "e", "-">> \o Str(v) \o <<".", "m", "d">> : v \in ids} |->
        LET v == CHOOSE v \in ids : f = <<"n", "o", "t", "e", "-">> \o Str(v) \o <<".", "m", "d">>
        IN  [youtube_id |-> v, video |-> v]]

\* Two videos of the same day whose titles have the same slug, and after
\* them videos with titles of their own.
AlikeCatalogue ==
    [v \in 1..MaxVideos |->
        IF v = 1 THEN [title |-> title_my_talk, publishedAt |-> published_jan_1]
        ELSE IF v = 2 THEN [title |-> title_my_talk_2, publishedAt |-> published_jan_1_late]
        ELSE [title |-> title_other \o Str(v), publishedAt |-> published_jan_2]]

\* Videos with titles of their own.
ApartCatalogue ==
    [v \in 1..MaxVideos |-> [title |-> title_other \o Str(v), publishedAt |-> published_jan_1]]

FetchRaises == [raises |-> TRUE, items |-> <<>>]

\* Item lists a fetch returns: n items numbered in order, or the same with a
\* first item that carries no ID.
ItemLists(most) ==
    {[k \in 1..n |-> k] : n \in 0..most}
    \cup {[k \in 1..n |-> IF k = 1 THEN MissingId ELSE k] : n \in 1..most}

PlaylistFetches == {FetchRaises} \cup {[raises |-> FALSE, items |-> l] : l \in ItemLists(MaxVideos)}

ChannelFetches == {FetchRaises} \cup {[raises |-> FALSE, items |-> l] : l \in ItemLists(MaxPlaylists)}

\* processor.py lines 176-182: the IDs of the items that have one.
ValidIds(items) == SelectSeq(items, LAMBDA v : v # MissingId)

\* processor.py lines 189-198.
VideosToProcess(items, ow, existing) ==
    IF ow THEN ValidIds(items)
    ELSE SelectSeq(ValidIds(items), LAMBDA v : v \notin existing)

\* processor.py line 249: playlists[:max_depth] if max_depth > 0 else playlists
PlaylistsToProcess(playlists, depth) ==
    IF depth > 0 THEN SubSeq(playlists, 1, Min2(depth, Len(playlists))) ELSE playlists

\* process_playlist returns: to the loop of process_channel, or to the command,
\* which then ends with "Processing complete." (main.py line 308).
PlaylistReturns ==
    IF content.type = "channel"
    THEN ppc' = "channel_loop" /\ pl_i' = pl_i + 1 /\ UNCHANGED exit_code
    ELSE ppc' = "exited" /\ exit_code' = ExitStatus("complete") /\ UNCHANGED pl_i

\* A cut that is applied whatever the limit is.
ApplyLimitAlways(ids, lim) == PySlice(ids, 0, lim)

\* processor.py lines 209-211: videos_to_process_ids[:limit] when limit > 0 and
\* the list is longer than limit.
ApplyLimit(ids, lim) ==
    IF lim > 0 /\ Len(ids) > lim THEN PySlice(ids, 0, lim) ELSE ids

\* process_playlist up to its for loop, processor.py lines 165-214, called
\* with the limit lim.  A failing fetch is caught at line 224.
BeginPlaylist(pid, lim) ==
    \E f \in PlaylistFetches :
        LET todo == IF f.raises THEN <<>>
                    ELSE ApplyLimit(VideosToProcess(f.items, overwrite, existing_ids), lim)
        IN  /\ all_videos_items' = f.items
            /\ events' = events \o
                   <<Event("process_playlist", pid, "call"),
                     Event("get_videos_from_playlist", pid,
                           IF f.raises THEN "raise" ELSE "ok")>>
            /\ playlist_id' = pid
            /\ videos_to_process_ids' = todo
            /\ vid_i' = 1
            /\ IF todo = <<>> THEN PlaylistReturns
               ELSE ppc' = "playlist_loop" /\ UNCHANGED <<pl_i, exit_code>>

\* The process command up to its routing, main.py lines 239-306.
Process ==
    /\ ppc = "start"
    /\ \E startup \in {"ok", "mkdir_error", "client_error"} :
          LET c == detect_content_type(content)
              reason == IF startup # "ok" THEN startup
                        ELSE IF Unresolved(c) THEN "not_found"
                        ELSE IF dry_run THEN "dry_run"
                        ELSE IF c.type \notin ContentTypes THEN "unsupported"
                        ELSE "route"
          IN  IF reason = "route"
              THEN ppc' = c.type /\ UNCHANGED exit_code
              ELSE ppc' = "exited" /\ exit_code' = ExitStatus(reason)
    /\ UNCHANGED <<content, overwrite, dry_run, max_depth, limit, existing_ids, events>>
    /\ UNCHANGED <<videos, files>>
    /\ UNCHANGED <<playlists_to_process, pl_i, playlist_id, all_videos_items,
                 videos_to_process_ids, vid_i>>
    /\ UNCHANGED <<chunk_vars, call_vars, pipe_vars, verify_vars, kw_vars, cfg_vars>>

\* main.py lines 297-298 and 308-312: process_video for a video input.
ProcessVideo ==
    /\ ppc = "video"
    /\ \E o \in VideoOutcomes :
          /\ events' = events \o ProcessVideoEvents(content.id, overwrite, existing_ids, o)
          /\ files' = IF VideoWritten(content.id, overwrite, existing_ids, o)
                      THEN write_video_note(files, VideoItem(content.id))
                      ELSE files
          /\ existing_ids' = get_existing_video_ids(files')
          /\ exit_code' = IF VideoRaises(content.id, overwrite, existing_ids, o)
                          THEN ExitStatus("error") ELSE ExitStatus("complete")
    /\ ppc' = "exited"
    /\ UNCHANGED <<content, overwrite, dry_run, max_depth, limit, videos>>
    /\ UNCHANGED <<playlists_to_process, pl_i, playlist_id, all_videos_items,
                 videos_to_process_ids, vid_i>>
    /\ UNCHANGED <<chunk_vars, call_vars, pipe_vars, verify_vars, kw_vars, cfg_vars>>

\* main.py lines 299-300: process_playlist for a playlist input.  The command
\* passes no limit (0); a direct caller of VideoProcessor.process_playlist
\* passes the limit it likes.
ProcessPlaylist ==
    /\ ppc = "playlist"
    /\ BeginPlaylist(content.id, limit)
    /\ UNCHANGED <<content, overwrite, dry_run, max_depth, limit, existing_ids, playlists_to_process>>
    /\ UNCHANGED <<videos, files>>
    /\ UNCHANGED <<chunk_vars, call_vars, pipe_vars, verify_vars, kw_vars, cfg_vars>>

\* One iteration of the for loop of process_playlist, processor.py lines
\* 215-220: process_video with overwrite=True.  An exception that leaves
\* process_video ends the loop at the except of line 224.
PlaylistIterate ==
    /\ ppc = "playlist_loop"
    /\ vid_i <= Len(videos_to_process_ids)
    /\ \E o \in VideoOutcomes :
          LET vid == videos_to_process_ids[vid_i]
          IN  /\ events' = events \o ProcessVideoEvents(vid, TRUE, existing_ids, o)
              /\ files' = IF VideoWritten(vid, TRUE, existing_ids, o)
                          THEN write_video_note(files, VideoItem(vid))
                          ELSE files
              /\ existing_ids' = get_existing_video_ids(files')
              /\ IF VideoRaises(vid, TRUE, existing_ids, o)
                 THEN PlaylistReturns /\ UNCHANGED vid_i
                 ELSE vid_i' = vid_i + 1 /\ UNCHANGED <<ppc, pl_i, exit_code>>
    /\ UNCHANGED <<content, overwrite, dry_run, max_depth, limit, videos>>
    /\ UNCHANGED <<playlists_to_process, playlist_id, all_videos_items, videos_to_process_ids>>
    /\ UNCHANGED <<chunk_vars, call_vars, pipe_vars, verify_vars, kw_vars, cfg_vars>>

\* The for loop of process_playlist ends, processor.py lines 215 and 222.
PlaylistDone ==
    /\ ppc = "playlist_loop"
    /\ vid_i > Len(videos_to_process_ids)
    /\ PlaylistReturns
    /\ UNCHANGED <<content, overwrite, dry_run, max_depth, limit, existing_ids, events>>
    /\ UNCHANGED <<videos, files>>
    /\ UNCHANGED <<playlists_to_process, playlist_id, all_videos_items,
                 videos_to_process_ids, vid_i>>
    /\ UNCHANGED <<chunk_vars, call_vars, pipe_vars, verify_vars, kw_vars, cfg_vars>>

\* main.py lines 301-302 and process_channel up to its for loop, processor.py
\* lines 238-256.  A failing fetch is caught at line 270.
ProcessChannel ==
    /\ ppc = "channel"
    /\ \E f \in ChannelFetches :
          LET todo == IF f.raises THEN <<>> ELSE PlaylistsToProcess(f.items, max_depth)
          IN  /\ events' = events \o
                     <<Event("process_channel", content.id, "call"),
                       Event("get_channel_playlists", content.id,
                             IF f.raises THEN "raise" ELSE "ok")>>
              /\ playlists_to_process' = todo
              /\ pl_i' = 1
              /\ IF todo = <<>>
                 THEN ppc' = "exited" /\ exit_code' = ExitStatus("complete")
                 ELSE ppc' = "channel_loop" /\ UNCHANGED exit_code
    /\ UNCHANGED <<content, overwrite, dry_run, max_depth, limit, existing_ids>>
    /\ UNCHANGED <<videos, files>>
    /\ UNCHANGED <<playlist_id, all_videos_items, videos_to_process_ids, vid_i>>
    /\ UNCHANGED <<chunk_vars, call_vars, pipe_vars, verify_vars, kw_vars, cfg_vars>>

\* One iteration of the for loop of process_channel, processor.py lines
\* 257-266: process_playlist, without limit, for a playlist that has an ID.
ChannelIterate ==
    /\ ppc = "channel_loop"
    /\ pl_i <= Len(playlists_to_process)
    /\ IF playlists_to_process[pl_i] # MissingId
       THEN BeginPlaylist(playlists_to_process[pl_i], 0)
       ELSE /\ pl_i' = pl_i + 1
            /\ UNCHANGED <<ppc, exit_code, events, playlist_id, all_videos_items,
                         videos_to_process_ids, vid_i>>
    /\ UNCHANGED <<content, overwrite, dry_run, max_depth, limit, existing_ids, playlists_to_process>>
    /\ UNCHANGED <<videos, files>>
    /\ UNCHANGED <<chunk_vars, call_vars, pipe_vars, verify_vars, kw_vars, cfg_vars>>

\* The for loop of process_channel ends, processor.py lines 257 and 268.
ChannelDone ==
    /\ ppc = "channel_loop"
    /\ pl_i > Len(playlists_to_process)
    /\ ppc' = "exited"
    /\ exit_code' = ExitStatus("complete")
    /\ UNCHANGED <<content, overwrite, dry_run, max_depth, limit, existing_ids, events>>
    /\ UNCHANGED <<videos, files>>
    /\ UNCHANGED <<playlists_to_process, pl_i, playlist_id, all_videos_items,
                 videos_to_process_ids, vid_i>>
    /\ UNCHANGED <<chunk_vars, call_vars, pipe_vars, verify_vars, kw_vars, cfg_vars>>

\* VideoProcessor.process_video(video_id, output_dir, overwrite) called by
\* itself, processor.py lines 103-154, any number of times into one directory.
CallProcessVideo ==
    /\ ppc = "direct"
    /\ Len(SelectSeq(events, LAMBDA e : e.op = "process_video")) < MaxNoteCalls
    /\ \E video_id \in DOMAIN videos, ow \in BOOLEAN, o \in VideoOutcomes :
          /\ events' = events \o ProcessVideoEvents(video_id, ow, existing_ids, o)
          /\ files' = IF VideoWritten(video_id, ow, existing_ids, o)
                      THEN write_video_note(files, VideoItem(video_id))
                      ELSE files
          /\ existing_ids' = get_existing_video_ids(files')
    /\ UNCHANGED <<content, overwrite, dry_run, max_depth, limit, videos, ppc, exit_code>>
    /\ UNCHANGED <<playlists_to_process, pl_i, playlist_id, all_videos_items,
                 videos_to_process_ids, vid_i>>
    /\ UNCHANGED <<chunk_vars, call_vars, pipe_vars, verify_vars, kw_vars, cfg_vars>>

\* Notes the output directory holds when the command starts.
ExistingSets == {{}, {1}, 1..MaxVideos}

---------------------------------------------------------------------------
(* Initial states and specifications.                                      *)

ChunkerUnused ==
    /\ transcript = <<>> /\ max_chars = DefaultMaxChars /\ overlap = DefaultOverlap
    /\ start = 0 /\ chunks = <<>> /\ bounds = <<>> /\ cpc = "none"

CallIdle ==
    /\ call_state = "Idle" /\ attempt = 0 /\ attempt_log = <<>> /\ sleeps = <<>>
    /\ call_error = NoError /\ response = <<>>

PipelineAt(p) ==
    /\ pc = p /\ chunk_i = 0 /\ chunk_summaries = <<>> /\ result = <<>>
    /\ raised = FALSE /\ api_requests = 0 /\ all_failed = NoError /\ call_trace = <<>>

KeywordsUnused == max_keywords = IntOf(DefaultMaxKeywords) /\ all_keywords = <<>>

VerifyIdle ==
    /\ input_str = <<>> /\ vpc = "idle" /\ searches = <<>>
    /\ pending = [block |-> "", q |-> <<>>, type |-> ""]
    /\ last_outcome = SearchItems(<<>>)
    /\ vresult = [type |-> "None", id |-> PyNone]

ConfigUnused == model = <<>> /\ model_config = NoConfig /\ mpc = "unused"

ProcessorAt(p) ==
    /\ ppc = p /\ exit_code = -1 /\ events = <<>>
    /\ playlists_to_process = <<>> /\ pl_i = 0 /\ playlist_id = MissingId
    /\ all_videos_items = <<>> /\ videos_to_process_ids = <<>> /\ vid_i = 0

ProcessorUnused ==
    /\ content = NoContent /\ overwrite = FALSE /\ dry_run = FALSE /\ max_depth = 0
    /\ limit = 0 /\ videos = <<>> /\ files = <<>>
    /\ existing_ids = {} /\ ProcessorAt("unused")

\* _chunk_transcript called on its own with every text, max_chars and overlap.
InitChunk ==
    /\ \E n \in 0..MaxLen : transcript \in TextsOfLen(n)
    /\ max_chars \in 1..MaxChars
    /\ overlap \in 0..MaxOverlap
    /\ start = 0 /\ chunks = <<>> /\ bounds = <<>> /\ cpc = "entry"
    /\ max_retries = 0 /\ retry_config = DefaultRetryConfig
    /\ CallIdle /\ PipelineAt("unused") /\ VerifyIdle /\ KeywordsUnused
    /\ ConfigUnused /\ ProcessorUnused

NextChunk == ChunkEnter \/ ChunkIterate \/ ChunkReturn

SpecChunk == InitChunk /\ [][NextChunk]_vars

\* _make_api_request called on its own.
InitRetry ==
    /\ max_retries \in 0..MaxRetries
    /\ retry_config \in RetryConfigs
    /\ CallIdle /\ ChunkerUnused /\ PipelineAt("direct") /\ VerifyIdle /\ KeywordsUnused
    /\ ConfigUnused /\ ProcessorUnused

NextRetry == DirectCall \/ AttemptSucceeds \/ AttemptRaises

SpecRetry == InitRetry /\ [][NextRetry]_vars

\* generate_summary on a constructed client.
InitSummary ==
    /\ max_chars \in {ModelMaxChars[m] : m \in DOMAIN ModelMaxChars}
    /\ transcript \in SummaryTranscripts(max_chars)
    /\ overlap = DefaultOverlap
    /\ start = 0 /\ chunks = <<>> /\ bounds = <<>> /\ cpc = "none"
    /\ max_retries \in 0..SummaryMaxRetries
    /\ retry_config = DefaultRetryConfig
    /\ CallIdle /\ PipelineAt("idle") /\ VerifyIdle /\ KeywordsUnused
    /\ ConfigUnused /\ ProcessorUnused

NextSummary ==
    \/ GenerateSummary
    \/ ChunkEnter \/ ChunkIterate \/ ChunkReturn
    \/ SectionsBegin
    \/ AttemptSucceeds \/ AttemptRaises
    \/ SingleDone \/ SectionDone \/ MetaDone

SpecSummary == InitSummary /\ [][NextSummary]_vars

\* generate_keywords on a constructed client.
InitKeywords ==
    /\ max_chars \in {ModelMaxChars[m] : m \in DOMAIN ModelMaxChars}
    /\ transcript \in KeywordTranscripts(max_chars)
    /\ overlap = DefaultOverlap
    /\ start = 0 /\ chunks = <<>> /\ bounds = <<>> /\ cpc = "none"
    /\ max_retries \in 0..KwMaxRetries
    /\ retry_config = DefaultRetryConfig
    /\ max_keywords \in KeywordCounts
    /\ all_keywords = <<>>
    /\ CallIdle /\ PipelineAt("kw_idle") /\ VerifyIdle
    /\ ConfigUnused /\ ProcessorUnused

NextKeywords ==
    \/ GenerateKeywords
    \/ ChunkEnter \/ ChunkIterate \/ ChunkReturn
    \/ KwSectionsBegin
    \/ AttemptSucceeds \/ AttemptRaises
    \/ KwSingleDone \/ KwSectionDone

SpecKeywords == InitKeywords /\ [][NextKeywords]_vars

\* A constructed client on which generate_summary or generate_keywords is
\* called.
InitPipelines == InitSummary \/ InitKeywords

NextPipelines == NextSummary \/ NextKeywords

SpecPipelines == InitPipelines /\ [][NextPipelines]_vars

\* verify_input_type on a constructed client.
InitVerify ==
    /\ input_str \in VerifyInputs
    /\ vpc = "idle" /\ searches = <<>>
    /\ pending = [block |-> "", q |-> <<>>, type |-> ""]
    /\ last_outcome = SearchItems(<<>>)
    /\ vresult = [type |-> "None", id |-> PyNone]
    /\ max_retries = 0 /\ retry_config = DefaultRetryConfig
    /\ CallIdle /\ ChunkerUnused /\ PipelineAt("unused") /\ KeywordsUnused
    /\ ConfigUnused /\ ProcessorUnused

NextVerify == VerifyInputType \/ SearchResponds

SpecVerify == InitVerify /\ [][NextVerify]_vars

\* A client is constructed for a model name and asked for a summary.
InitModelConfig ==
    /\ model \in ModelNames
    /\ model_config = NoConfig /\ mpc = "new"
    /\ transcript \in ProfileTranscripts
    /\ max_chars = 0 /\ overlap = DefaultOverlap
    /\ start = 0 /\ chunks = <<>> /\ bounds = <<>> /\ cpc = "none"
    /\ max_retries = 0 /\ retry_config = DefaultRetryConfig
    /\ CallIdle /\ PipelineAt("unused") /\ VerifyIdle /\ KeywordsUnused
    /\ ProcessorUnused

NextModelConfig ==
    \/ ClientInit
    \/ GenerateSummary
    \/ ChunkEnter \/ ChunkIterate \/ ChunkReturn

SpecModelConfig == InitModelConfig /\ [][NextModelConfig]_vars

\* The process command run on an input that verify_input_type has resolved.
InitProcess ==
    /\ content \in VerifyResults
    /\ overwrite \in BOOLEAN /\ dry_run \in BOOLEAN
    /\ max_depth \in 0..MaxDepth
    /\ limit \in IF content.type = "playlist" THEN (-1)..MaxLimit ELSE {0}
    /\ existing_ids \in ExistingSets
    /\ files = EarlierNotes(existing_ids)
    /\ videos \in {AlikeCatalogue, ApartCatalogue}
    /\ ProcessorAt("start")
    /\ max_retries = 0 /\ retry_config = DefaultRetryConfig
    /\ CallIdle /\ ChunkerUnused /\ PipelineAt("unused") /\ VerifyIdle /\ KeywordsUnused
    /\ ConfigUnused

NextProcess ==
    \/ Process
    \/ ProcessVideo
    \/ ProcessPlaylist \/ PlaylistIterate \/ PlaylistDone
    \/ ProcessChannel \/ ChannelIterate \/ ChannelDone

SpecProcess == InitProcess /\ [][NextProcess]_vars

\* process_video called again and again into one output directory.
InitNotes ==
    /\ content = NoContent /\ overwrite = FALSE /\ dry_run = FALSE /\ max_depth = 0
    /\ limit = 0
    /\ existing_ids \in {{}, {MaxVideos}}
    /\ files = EarlierNotes(existing_ids)
    /\ videos \in [1..MaxVideos -> Snippets]
    /\ ProcessorAt("direct")
    /\ max_retries = 0 /\ retry_config = DefaultRetryConfig
    /\ CallIdle /\ ChunkerUnused /\ PipelineAt("unused") /\ VerifyIdle /\ KeywordsUnused
    /\ ConfigUnused

NextNotes == CallProcessVideo

SpecNotes == InitNotes /\ [][NextNotes]_vars

---------------------------------------------------------------------------
(* Properties of _chunk_transcript, checked under SpecChunk.               *)

\* The part of chunk i that its predecessor does not already hold.
Core(i) ==
    IF i = 1 THEN chunks[1]
    ELSE SubSeq(chunks[i], (bounds[i - 1][2] - bounds[i][1]) + 1, Len(chunks[i]))

RECURSIVE CoresFrom(_)
CoresFrom(i) == IF i > Len(chunks) THEN <<>> ELSE Core(i) \o CoresFrom(i + 1)

\* A chunk that was cut short at a sentence end.
Snapped(i) == bounds[i][2] < Len(transcript) /\ Len(chunks[i]) < max_chars

\* C8: with 0 <= overlap < max_chars the chunks returned leave no gap: the
\* first starts at 0, each later one starts at or before the end of its
\* predecessor, the last ends at the end of the text, and the chunks without
\* the prefixes they share with their predecessors concatenate to the text.
ChunkCoverage ==
    (cpc = "done" /\ overlap < max_chars) =>
        /\ Len(chunks) >= 1
        /\ Len(bounds) = Len(chunks)
        /\ \A i \in 1..Len(chunks) :
              chunks[i] = SubSeq(transcript, bounds[i][1] + 1, bounds[i][2])
        /\ bounds[1][1] = 0
        /\ bounds[Len(chunks)][2] = Len(transcript)
        /\ \A i \in 2..Len(chunks) : bounds[i][1] <= bounds[i - 1][2]
        /\ CoresFrom(1) = transcript

ChunkCoverageWitness ==
    /\ cpc = "done" /\ overlap < max_chars /\ overlap > 0
    /\ Len(chunks) >= 3
    /\ \E i \in 1..Len(chunks) : Snapped(i)

CeilDiv(a, b) == (a + b - 1) \div b

NoSentenceEnd(text) == \A i \in 1..Len(text) : text[i] \notin {".", "!", "?"}

\* C9: a text of length L > M without sentence-ending punctuation is cut into
\* exactly ceil((L - O) / (M - O)) chunks.
ChunkCountFormula ==
    (/\ cpc = "done"
     /\ Len(transcript) > max_chars
     /\ overlap < max_chars
     /\ NoSentenceEnd(transcript)) =>
        Len(chunks) = CeilDiv(Len(transcript) - overlap, max_chars - overlap)

\* C10: every chunk is at most max_chars long, whatever the text, max_chars
\* and overlap.
ChunkLengthBound == \A i \in 1..Len(chunks) : Len(chunks[i]) <= max_chars

ChunkLengthBoundWitness ==
    /\ cpc = "done"
    /\ Len(chunks) >= 2
    /\ \E i \in 1..Len(chunks) : Len(chunks[i]) = max_chars
    /\ \E i \in 1..Len(chunks) : Snapped(i)

\* C11: with overlap < max_chars every loop iteration moves start strictly
\* forward, also when the boundary of the chunk is snapped to a sentence end.
ChunkForwardProgress ==
    [][(cpc = "loop" /\ overlap < max_chars /\ chunks' # chunks) => start' > start]_vars

\* C26: in the returned list every chunk after the first begins exactly
\* overlap characters before the end of the chunk before it, the last pair
\* included, and ends after it, so that no chunk lies inside its predecessor.
ChunkOverlapExact ==
    (cpc = "done" /\ overlap < max_chars) =>
        \A i \in 1..(Len(chunks) - 1) :
            /\ bounds[i + 1][1] = bounds[i][2] - overlap
            /\ bounds[i + 1][2] > bounds[i][2]

SentenceMarks == {".", "!", "?"}

\* The window text[start + int(0.8 * max_chars) : start + max_chars] of the
\* iteration that begins at st, and the place of its last sentence end.
SnapWindow(text, st, mc) == PySlice(text, st + IntOfEightTenths(mc), st + mc)

SentenceEndsIn(w) == {k \in 1..(Len(w) - 1) : w[k] \in SentenceMarks /\ w[k + 1] = " "}

\* C31: an iteration whose raw end start + max_chars lies before the end of
\* the text appends the chunk that ends right after the last ". ", "! " or
\* "? " of the window (so its last two characters are the mark and a space),
\* and the chunk text[start : start + max_chars] when the window has none.
SentenceSnapping ==
    [][(cpc = "loop" /\ chunks' # chunks /\ start + max_chars < Len(transcript)) =>
          LET w == SnapWindow(transcript, start, max_chars)
              new == chunks'[Len(chunks')]
          IN  IF SentenceEndsIn(w) # {}
              THEN /\ Len(new) >= 2
                   /\ new[Len(new) - 1] \in SentenceMarks /\ new[Len(new)] = " "
                   /\ new = PySlice(transcript, start,
                                    PyIndex(start + IntOfEightTenths(max_chars), Len(transcript))
                                    + SetMax(SentenceEndsIn(w)) + 1)
              ELSE new = PySlice(transcript, start, start + max_chars)]_vars

\* C32: a request with overlap >= max_chars on a text longer than max_chars
\* is rejected: the function raises before its while loop, so it appends no
\* chunk and never runs an iteration that leaves start where it was.
OverlapMisconfigurationRejected ==
    (overlap >= max_chars /\ Len(transcript) > max_chars) =>
        (cpc # "loop" /\ chunks = <<>>)

---------------------------------------------------------------------------
(* Properties of _make_api_request, checked under SpecRetry.               *)

AllRetryable(log) == \A i \in 1..Len(log) : log[i].type \in RetryableTypes

\* C3: a call whose every attempt fails with a retryable error invokes the
\* endpoint exactly max_retries + 1 times and is then Exhausted, not before
\* and not after.
RetryExhaustion ==
    /\ (attempt_log # <<>> /\ AllRetryable(attempt_log)) =>
          /\ Len(attempt_log) <= max_retries + 1
          /\ Len(attempt_log) = max_retries + 1 => call_state = "Exhausted"
          /\ Len(attempt_log) < max_retries + 1 => call_state = "Attempting"
    /\ call_state = "Exhausted" =>
          /\ Len(attempt_log) = max_retries + 1
          /\ AllRetryable(attempt_log)

RetryExhaustionWitness ==
    /\ call_state = "Exhausted"
    /\ max_retries = 2
    /\ Len(attempt_log) = 3

\* C4: a call whose first attempt raises a non-retryable error is Failed
\* after that one invocation, without a sleep or a second attempt.
NonRetryableFailsAtOnce ==
    (/\ attempt_log # <<>>
     /\ attempt_log[1] \in Errors
     /\ attempt_log[1].type \notin RetryableTypes) =>
        /\ call_state = "Failed"
        /\ Len(attempt_log) = 1
        /\ attempt = 1
        /\ sleeps = <<>>
        /\ call_error = attempt_log[1]

NonRetryableFailsAtOnceWitness ==
    /\ call_state = "Failed"
    /\ max_retries >= 2
    /\ Len(attempt_log) = 1
    /\ attempt_log[1].type \notin RetryableTypes

---------------------------------------------------------------------------
(* Properties of generate_summary, checked under SpecSummary.              *)

Contains(text, fragment) == \E i \in 1..Len(text) : text[i] = fragment

\* C1: generate_summary never raises, and what it returns is a string.
SummaryNeverRaises ==
    /\ ~raised
    /\ pc = "returned" => (result \in Seq(STRING) /\ result # PyNone)

SummaryNeverRaisesWitness ==
    /\ pc = "returned"
    /\ Len(chunks) >= 3
    /\ call_state = "Exhausted"
    /\ \E i \in 1..Len(chunk_summaries) : \E e \in Errors :
          e.type \notin RetryableTypes /\ chunk_summaries[i] = SectionPlaceholder(e)

\* Every endpoint invocation so far raised the same non-retryable error.
EveryCallFailedWith(e) ==
    /\ all_failed = e
    /\ e.type \notin RetryableTypes

\* C2 as stated: if every call raises a non-retryable error E, the string
\* returned holds "Error Generating Summary" and the message of E, for a
\* transcript of any length.
ErrorSummaryAlways ==
    \A e \in Errors :
        (pc = "returned" /\ EveryCallFailedWith(e)) =>
            /\ ~raised
            /\ Contains(result, "## Error Generating Summary\n\n")
            /\ Contains(result, e.msg)

\* C2 as amended: if every call raises a non-retryable error E, the string
\* returned holds the message of E; it holds "Error Generating Summary" and
\* the type of E exactly when the transcript is within max_transcript_chars.
ErrorSummaryOnSinglePath ==
    \A e \in Errors :
        (pc = "returned" /\ EveryCallFailedWith(e)) =>
            /\ ~raised
            /\ Contains(result, e.msg)
            /\ Contains(result, "## Error Generating Summary\n\n")
                   <=> Len(transcript) <= max_chars
            /\ Len(transcript) <= max_chars => Contains(result, e.type)

ErrorSummaryWitness ==
    /\ pc = "returned"
    /\ \E e \in Errors : EveryCallFailedWith(e)
    /\ Len(transcript) > max_chars
    /\ Contains(result, "# Transcript Section Summaries\n\n")

\* The calls of one kind that were started, and those that ended, in order.
Started(kind) == SelectSeq(call_trace, LAMBDA r : r.kind = kind /\ r.ev = "start")

Ended(kind) == SelectSeq(call_trace, LAMBDA r : r.kind = kind /\ r.ev = "end")

IsPlaceholderFor(summary, e) ==
    /\ Contains(summary, "*Error processing this section: ")
    /\ Contains(summary, e.msg)

\* C12: once the section loop of a chunked summarization with N chunks is
\* over, exactly N section calls were made, one per chunk in chunk order,
\* whichever of them failed; the section of a failed chunk is a placeholder
\* with the message of that chunk's error, the section of a successful chunk
\* is the model's text for that chunk, and the meta-summary call was made
\* right after the last section call ended.
ChunkFailureIsolation ==
    (pc \in {"meta", "returned"} /\ cpc = "done") =>
        LET n == Len(chunks)
        IN  /\ Len(Started("section")) = n
            /\ Len(Ended("section")) = n
            /\ Len(chunk_summaries) = n
            /\ \A k \in 1..n :
                  /\ Started("section")[k].i = k - 1
                  /\ Ended("section")[k].i = k - 1
                  /\ IF Ended("section")[k].out = Answered
                     THEN chunk_summaries[k] = CompletionOf("section", k - 1)
                     ELSE IsPlaceholderFor(chunk_summaries[k], Ended("section")[k].out)
            /\ Len(call_trace) > 2 * n
            /\ call_trace[2 * n + 1].ev = "start"
            /\ call_trace[2 * n + 1].kind = "meta"

ChunkFailureIsolationWitness ==
    /\ pc = "returned" /\ cpc = "done"
    /\ Len(chunks) >= 3
    /\ Ended("section")[1].out \in Errors
    /\ Ended("section")[2].out = Answered
    /\ Ended("section")[3].out \in Errors
    /\ Ended("section")[3].out # Ended("section")[1].out

\* C13: the calls of a summarization are made one after the other: every
\* call ends, with all its attempts, before the next one starts; the section
\* calls come in chunk order, the meta-summary call comes after the end of
\* the last section call, and nothing is in flight when the summary returns.
CallOrdering ==
    /\ \A k \in 1..Len(call_trace) :
          IF k % 2 = 1
          THEN call_trace[k].ev = "start"
          ELSE /\ call_trace[k].ev = "end"
               /\ call_trace[k].kind = call_trace[k - 1].kind
               /\ call_trace[k].i = call_trace[k - 1].i
    /\ call_state = "Attempting" <=> Len(call_trace) % 2 = 1
    /\ call_state = "Idle" => attempt_log = <<>>
    /\ \A k \in 1..Len(Started("section")) : Started("section")[k].i = k - 1
    /\ \A k \in 1..Len(call_trace) :
          (call_trace[k].kind = "meta" /\ call_trace[k].ev = "start") =>
              /\ k > 2 * Len(chunks)
              /\ Len(Ended("section")) = Len(chunks)
              /\ \A j \in 1..(k - 1) : call_trace[j].kind = "section"
    /\ pc = "returned" => Len(call_trace) % 2 = 0

CallOrderingWitness ==
    /\ pc = "returned"
    /\ Len(chunks) >= 3
    /\ Len(call_trace) = 2 * (Len(chunks) + 1)
    /\ call_trace[4].out \in Errors
    /\ call_state = "Exhausted"
    /\ Len(attempt_log) = 2

\* The numbered summary of chunk k of n as it stands in the result.
SectionBlock(k, n) ==
    <<"## Section ">> \o Str(k) \o <<"/">> \o Str(n) \o <<" Summary\n">> \o chunk_summaries[k]

RECURSIVE BlocksLen(_, _)
BlocksLen(k, n) == IF k > n THEN 0 ELSE Len(SectionBlock(k, n)) + BlocksLen(k + 1, n)

\* The blocks of all n chunks stand in text, in chunk order, from position
\* from on (0-based), with nothing but one separator between them and
\* nothing after the last.
SectionsInOrder(text, from, n) ==
    /\ \A k \in 1..n : PyFind(text, SectionBlock(k, n)) >= from
    /\ \A k \in 1..(n - 1) :
          PyFind(text, SectionBlock(k, n)) < PyFind(text, SectionBlock(k + 1, n))
    /\ Len(text) = from + BlocksLen(1, n) + (n - 1)

\* C14: a chunked summarization of N > 1 chunks returns, when the
\* meta-summary call succeeded, the meta-summary text followed by the N
\* numbered section summaries in chunk order; when it failed, exactly the N
\* numbered section summaries in chunk order under one heading, without any
\* meta text; in both cases the meta call was the last call made.
MetaComposition ==
    (pc = "returned" /\ cpc = "done" /\ Len(chunks) > 1) =>
        LET n == Len(chunks)
            meta == call_trace[Len(call_trace)]
            text == CompletionOf("meta", n - 1)
        IN  /\ meta.kind = "meta" /\ meta.ev = "end"
            /\ Len(Started("meta")) = 1
            /\ api_requests = n + 1
            /\ IF meta.out = Answered
               THEN /\ PyFind(result, text) = 1
                    /\ SectionsInOrder(result, 2 + Len(text), n)
               ELSE /\ result[1] = "# Transcript Section Summaries\n\n"
                    /\ PyFind(result, text) = -1
                    /\ ~Contains(result, "# Overall Summary\n\n")
                    /\ SectionsInOrder(result, 1, n)

MetaCompositionWitness ==
    /\ pc = "returned" /\ cpc = "done"
    /\ Len(chunks) >= 3
    /\ call_trace[Len(call_trace)].out = Answered
    /\ Ended("section")[2].out \in Errors
    /\ Ended("section")[3].out = Answered

MetaFallbackWitness ==
    /\ pc = "returned" /\ cpc = "done"
    /\ Len(chunks) >= 3
    /\ call_trace[Len(call_trace)].out \in Errors
    /\ Ended("section")[1].out = Answered

\* C15: for a transcript of at most max_transcript_chars characters
\* generate_summary makes exactly one _make_api_request call, with the
\* single-summary prompt and never a section or meta prompt, and does not
\* chunk; when the call succeeds the summary returned is the model's text.
SinglePathOneCall ==
    Len(transcript) <= max_chars =>
        /\ cpc = "none"
        /\ api_requests <= 1
        /\ \A k \in 1..Len(call_trace) : call_trace[k].kind = "single"
        /\ pc = "returned" =>
              /\ api_requests = 1
              /\ Len(call_trace) = 2
              /\ call_trace[1] = CallStarted("single", 0)
              /\ call_trace[2].ev = "end"
              /\ call_trace[2].out = Answered => result = CompletionOf("single", 0)

SinglePathOneCallWitness ==
    /\ pc = "returned"
    /\ Len(transcript) = max_chars
    /\ Len(attempt_log) = 2
    /\ call_trace[2].out = Answered
    /\ result = CompletionOf("single", 0)

\* C20: the call sleeps once after every failed attempt that is retried,
\* the n-th sleep lasting min(max_delay, initial_delay * exponential_base^(n-1));
\* with exponential_base >= 1 the delays of a call never decrease, and none
\* exceeds max_delay.
BackoffSchedule ==
    /\ call_state # "Idle" => Len(sleeps) = attempt - 1
    /\ Len(sleeps) <= max_retries
    /\ \A n \in 1..Len(sleeps) :
          /\ attempt_log[n].type \in RetryableTypes
          /\ sleeps[n] = Min2(retry_config.max_delay,
                              retry_config.initial_delay
                                  * Pow(retry_config.exponential_base, n - 1))
          /\ sleeps[n] <= retry_config.max_delay
    /\ retry_config.exponential_base >= 1 =>
          \A n \in 1..(Len(sleeps) - 1) : sleeps[n] <= sleeps[n + 1]

BackoffScheduleWitness ==
    /\ Len(sleeps) = 3
    /\ sleeps[1] < sleeps[2]
    /\ sleeps[2] = retry_config.max_delay
    /\ retry_config.initial_delay * Pow(retry_config.exponential_base, 2) > retry_config.max_delay
    /\ sleeps[3] = retry_config.max_delay
    /\ call_state = "Done"

LastAttempt == attempt_log[Len(attempt_log)]

RetryableFailures(log, j) ==
    /\ Len(log) = j
    /\ \A k \in 1..j : log[k] \in Errors /\ log[k].type \in RetryableTypes

\* C19: a call whose first j <= max_retries attempts fail with retryable
\* errors is still being attempted; when attempt j + 1 succeeds the call
\* returns that response after exactly j + 1 invocations, and a summary made
\* with this one call is the model's text, not the error fallback.
SuccessAfterRetries ==
    /\ \A j \in 0..max_retries :
          /\ (call_state # "Idle" /\ RetryableFailures(attempt_log, j)) =>
                 call_state = "Attempting" /\ attempt = j + 1
          /\ (/\ Len(attempt_log) = j + 1
              /\ RetryableFailures(SubSeq(attempt_log, 1, j), j)
              /\ attempt_log[j + 1] = Answered) =>
                 /\ call_state = "Done"
                 /\ call_error = NoError
                 /\ response = call_trace[Len(call_trace)].text
                 /\ Len(sleeps) = j
    /\ (pc = "returned" /\ cpc = "none" /\ LastAttempt = Answered) =>
          /\ result = response
          /\ result = CompletionOf("single", 0)
          /\ ~Contains(result, "## Error Generating Summary\n\n")

SuccessAfterRetriesWitness ==
    /\ pc = "returned" /\ cpc = "none"
    /\ max_retries = 2
    /\ Len(attempt_log) = 3
    /\ RetryableFailures(SubSeq(attempt_log, 1, 2), 2)
    /\ attempt_log[3] = Answered
    /\ result = CompletionOf("single", 0)

---------------------------------------------------------------------------
(* Properties of generate_keywords, checked under SpecKeywords.            *)

EveryCallRaised ==
    \A k \in 1..Len(call_trace) : call_trace[k].ev = "end" => call_trace[k].out \in Errors

\* C16: for every transcript, every max_keywords (None included) and every
\* behaviour of the endpoint generate_keywords never raises and returns a
\* list, the empty list when every model call failed.
KeywordsNeverRaise ==
    /\ ~raised
    /\ pc = "returned" =>
          /\ \A k \in 1..Len(result) : result[k] \in Seq(STRING)
          /\ EveryCallRaised => result = <<>>

\* The keyword lists of the chunks from the k-th ended section call on, in
\* chunk order; a call that raised, or answered without content, has none.
RECURSIVE ChunkKeywordsFrom(_)
ChunkKeywordsFrom(k) ==
    IF k > Len(Ended("kw_section")) THEN <<>>
    ELSE LET call == Ended("kw_section")[k]
         IN  (IF call.out = Answered /\ call.text # PyNone
              THEN ParseKeywords(call.text) ELSE <<>>)
             \o ChunkKeywordsFrom(k + 1)

\* The positions of all whose keyword no earlier position holds, ignoring case.
FirstOccurrences(all) ==
    {i \in 1..Len(all) : \A j \in 1..(i - 1) : Lower(all[j]) # Lower(all[i])}

kw_AI == <<"A", "I">>

kw_ai == <<"a", "i">>

kw_Machine_Learning ==
    <<"M", "a", "c", "h", "i", "n", "e", " ", "L", "e", "a", "r", "n", "i", "n", "g">>

\* C17: on the chunked path with a count max_keywords >= 0 the list returned
\* is the concatenation of the chunks' keyword lists in chunk order, without
\* the keywords that equal an earlier one ignoring case (the first stays as
\* it was written), cut to its first max_keywords entries; the outputs
\* "AI", "ai", "Machine Learning" give "AI", "Machine Learning".
KeywordMerge ==
    (/\ pc = "returned" /\ cpc = "done" /\ ~raised
     /\ ~max_keywords.none /\ max_keywords.n >= 0) =>
        LET all == ChunkKeywordsFrom(1)
            kept == FirstOccurrences(all)
        IN  /\ Len(result) = Min2(max_keywords.n, Cardinality(kept))
            /\ \A k \in 1..Len(result) :
                  \E i \in kept :
                      /\ result[k] = all[i]
                      /\ Cardinality({j \in kept : j < i}) = k - 1
            /\ (all = <<kw_AI, kw_ai, kw_Machine_Learning>> /\ max_keywords.n >= 2) =>
                  result = <<kw_AI, kw_Machine_Learning>>

KeywordMergeWitness ==
    /\ pc = "returned" /\ cpc = "done" /\ ~raised
    /\ Len(chunks) >= 3
    /\ ~max_keywords.none /\ max_keywords.n = 2
    /\ ChunkKeywordsFrom(1) = <<kw_AI, kw_ai, kw_Machine_Learning, kw_ai, <<"M", "L">> >>
    /\ result = <<kw_AI, kw_Machine_Learning>>

---------------------------------------------------------------------------
(* Properties of verify_input_type, checked under SpecVerify.              *)

HasParam(s, name) == ReSearch(s, name, AmpStop) # PyNone

IsWatchUrlWithPlaylist(s) ==
    /\ PyIn(youtube_com_watch, s)
    /\ HasParam(s, v_equals)
    /\ HasParam(s, list_equals)

\* C5: a watch URL that carries both v= and list= resolves to the playlist
\* named by list=, not to the video named by v=.
WatchUrlWithListIsPlaylist ==
    (vpc = "returned" /\ IsWatchUrlWithPlaylist(input_str)) =>
        vresult = [type |-> "playlist", id |-> ReSearch(input_str, list_equals, AmpStop)]

IsBareChannelId(s) ==
    /\ Len(s) = 24
    /\ s[1] = "U" /\ s[2] = "C"
    /\ \A i \in 3..24 : s[i] \in IdChars

\* C6: a bare "UC" followed by exactly 22 characters of [A-Za-z0-9_-]
\* resolves to the channel of that ID.
BareChannelIdIsChannel ==
    (vpc = "returned" /\ IsBareChannelId(input_str)) =>
        vresult = [type |-> "channel", id |-> input_str]

LastSearch == searches[Len(searches)]

FallbackTypes == "video,playlist,channel"

\* The type and the ID the top hit of a response names: a recognized kind
\* with a non-empty ID in the field of that kind.
NamedBy(o) ==
    IF o.raises \/ o.items = <<>> THEN {}
    ELSE LET top == o.items[1]
         IN  (IF top.kind = "youtube#video"
              THEN {[type |-> "video", id |-> top.videoId]} ELSE {})
             \cup (IF top.kind = "youtube#playlist"
                   THEN {[type |-> "playlist", id |-> top.playlistId]} ELSE {})
             \cup (IF top.kind = "youtube#channel"
                   THEN {[type |-> "channel", id |-> top.channelId]} ELSE {})

\* C21: when the function returns after the fallback search, it returns the
\* type and ID the top hit names if the hit has a recognized kind and a
\* non-empty ID of that kind; in every other case (no items, unknown kind, ID
\* missing or empty, search raised) it returns (None, None).
FallbackDecoding ==
    (vpc = "returned" /\ searches # <<>> /\ LastSearch.type = FallbackTypes) =>
        LET named == {r \in NamedBy(last_outcome) : r.id # PyNone /\ r.id # <<>>}
        IN  /\ LastSearch.q = input_str
            /\ IF named # {} THEN vresult \in named
               ELSE vresult = [type |-> "None", id |-> PyNone]

FallbackDecodingWitness ==
    /\ vpc = "returned"
    /\ input_str = sample_free_text
    /\ Len(searches) = 1
    /\ LastSearch.type = FallbackTypes
    /\ last_outcome.items # <<>>
    /\ last_outcome.items[1].kind = "youtube#playlist"
    /\ vresult = [type |-> "playlist", id |-> sample_playlist_long]

FallbackNotFoundWitness ==
    /\ vpc = "returned"
    /\ searches # <<>>
    /\ LastSearch.type = FallbackTypes
    /\ last_outcome.items # <<>>
    /\ last_outcome.items[1].kind = "youtube#video"
    /\ last_outcome.items[1].videoId = <<>>
    /\ vresult = [type |-> "None", id |-> PyNone]

IsBareVideoId(s) == Len(s) = 11 /\ \A i \in 1..11 : s[i] \in IdChars

\* C7: a bare string of exactly 11 characters of [A-Za-z0-9_-] resolves to
\* the video of that ID, and no search is issued for it.
BareVideoIdIsVideo ==
    (vpc # "idle" /\ IsBareVideoId(input_str)) =>
        /\ vpc = "returned"
        /\ vresult = [type |-> "video", id |-> input_str]
        /\ searches = <<>>

BareVideoIdWitness ==
    /\ vpc = "returned"
    /\ IsBareVideoId(input_str)
    /\ \E i \in 1..11 : input_str[i] = "-"
    /\ \E i \in 1..11 : input_str[i] = "U"

IsNonUrl(s) ==
    /\ ~PyIn(youtu_be_slash, s)
    /\ ~PyIn(youtube_com, s)
    /\ ~PyIn(at_sign, s)
    /\ ~PyIn(list_equals, s)

\* The search gave no items, an unrecognized kind, or raised.
SearchGaveNothing(o) ==
    \/ o.raises
    \/ o.items = <<>>
    \/ o.items[1].kind \notin {"youtube#video", "youtube#playlist", "youtube#channel"}

\* C22: for an input that is not a YouTube URL (no "youtu.be/", "youtube.com",
\* "@" or "list=" in it), when no search answered with a recognized kind (the
\* search gave no items, an unknown kind, or raised), verify_input_type
\* returns (None, None).
NonUrlSearchFailureIsNotFound ==
    (/\ vpc = "returned"
     /\ IsNonUrl(input_str)
     /\ (searches = <<>> \/ SearchGaveNothing(last_outcome))) =>
        vresult = [type |-> "None", id |-> PyNone]

\* The handle of a handle URL: the text after "@" up to the next of / ? & #.
HandleOf(s) == ReSearch(s, at_sign, UrlStops)

\* youtube.com/@handle with a handle of at least one character
IsHandleUrl(s) ==
    PyIn(youtube_com, s) /\ PyIn(at_sign, s) /\ HandleOf(s) # PyNone

\* C23: for a handle URL the first search asks for "@handle" with
\* type=channel, the second (if any) asks for the bare handle with
\* type=channel, no third search is made, and a call that found no channel ID
\* returns (None, None).
HandleUrlSearchesAtMostTwice ==
    IsHandleUrl(input_str) =>
        /\ Len(searches) <= 2
        /\ Len(searches) >= 1 =>
               searches[1] = [q |-> at_sign \o HandleOf(input_str), type |-> "channel"]
        /\ Len(searches) >= 2 =>
               searches[2] = [q |-> HandleOf(input_str), type |-> "channel"]
        /\ (vpc = "returned" /\ ~Truthy(ChannelIdOf(last_outcome))) =>
               vresult = [type |-> "None", id |-> PyNone]

\* The first block of the function that the input matches.
FirstMatch(s) == RunFrom(1, s).block

FallbackIssued == \E i \in 1..Len(searches) : searches[i].type = FallbackTypes

\* C24: the fallback search is issued only for an input that matched none of
\* the patterns, and an input whose first match is the handle or the
\* custom-name pattern resolves to a channel or to (None, None), never to a
\* video or a playlist.
FallbackOnlyWhenNoPatternMatched ==
    /\ FallbackIssued => FirstMatch(input_str) = "fallback"
    /\ (/\ vpc = "returned"
        /\ FirstMatch(input_str) \in {"handle_url", "handle", "custom"}) =>
           vresult.type \in {"channel", "None"}

\* C25: the function returns (None, None), or a type among video, playlist
\* and channel with a non-empty ID that holds none of / ? & #; never a pair
\* with exactly one None.
ResultIsTypeAndCanonicalId ==
    vpc = "returned" =>
        \/ vresult = [type |-> "None", id |-> PyNone]
        \/ /\ vresult.type \in ContentTypes
           /\ vresult.id # PyNone
           /\ vresult.id # <<>>
           /\ \A i \in 1..Len(vresult.id) : vresult.id[i] \notin UrlStops

---------------------------------------------------------------------------
(* Properties of get_model_config and the client's use of the profile,     *)
(* checked under SpecModelConfig.                                          *)

\* name occurs in key when upper and lower case are taken as equal.
ContainsIgnoringCase(key, name) ==
    \E off \in 0..(Len(key) - Len(name)) :
        \A j \in 1..Len(name) : LowerChar(key[off + j]) = LowerChar(name[j])

KeysNamed(name) == {k \in 1..Len(MODEL_CONFIGS) : MODEL_CONFIGS[k].name = name}

KeysContaining(name) ==
    {k \in 1..Len(MODEL_CONFIGS) : ContainsIgnoringCase(MODEL_CONFIGS[k].name, name)}

Earliest(S) == CHOOSE k \in S : \A j \in S : k <= j

\* The profile the model name selects: that of the key equal to it, else that
\* of the earliest declared key containing it, else the default profile.
SelectedProfile(name) ==
    IF KeysNamed(name) # {} THEN ConfigOf(MODEL_CONFIGS[Earliest(KeysNamed(name))])
    ELSE IF KeysContaining(name) # {}
         THEN ConfigOf(MODEL_CONFIGS[Earliest(KeysContaining(name))])
         ELSE [timeout |-> 180, max_transcript_chars |-> 15000,
               description |-> "Default configuration for unknown models"]

\* C27: a constructed client holds the profile of the key equal to its model
\* name, else of the first declared key that contains the name ignoring case,
\* else the default profile (180 s, 15000 characters); the
\* max_transcript_chars of that profile is both the length above which
\* generate_summary chunks the transcript and the size of the chunks.
ModelProfileSelection ==
    mpc = "ready" =>
        LET budget == SelectedProfile(model).max_transcript_chars
        IN  /\ model_config = SelectedProfile(model)
            /\ max_chars = budget
            /\ pc \in {"single", "chunking"} =>
                   (pc = "chunking" <=> Len(transcript) > budget)
            /\ cpc = "done" =>
                   /\ Len(chunks) >= 2
                   /\ Len(chunks[1]) = budget
                   /\ \A i \in 1..Len(chunks) : Len(chunks[i]) <= budget

ModelProfileSelectionWitness ==
    /\ mpc = "ready"
    /\ KeysNamed(model) = {}
    /\ Lower(model) # model
    /\ KeysContaining(model) = {6, 7}
    /\ model_config.max_transcript_chars = 15000
    /\ model_config.timeout = 240
    /\ cpc = "done"
    /\ Len(chunks) = 2

ModelProfileDefaultWitness ==
    /\ mpc = "ready"
    /\ model = model_gpt_4o
    /\ model_config.timeout = 180
    /\ pc = "single"
    /\ Len(transcript) = 15000

---------------------------------------------------------------------------
(* Properties of the process command, checked under SpecProcess.           *)

Fetches == {"get_video_details", "get_transcript", "get_videos_from_playlist",
            "get_channel_playlists"}

\* C28: when the input resolves to (None, None) the command ends at once with
\* a non-zero status: no metadata fetch, no transcript fetch and no note
\* write is made, and no process_* function is entered.
NotFoundIsHardStop ==
    (content = NoContent /\ ppc # "start") =>
        /\ ppc = "exited"
        /\ exit_code # 0
        /\ events = <<>>
        /\ existing_ids \in ExistingSets

NotFoundIsHardStopWitness ==
    /\ content = NoContent
    /\ ppc = "exited"
    /\ exit_code = 1
    /\ ~dry_run
    /\ existing_ids = {1}

IdsOf(evs, op) ==
    LET calls == SelectSeq(evs, LAMBDA e : e.op = op)
    IN  [k \in 1..Len(calls) |-> calls[k].id]

\* The events after the last call of process_playlist.
SinceLastPlaylist ==
    LET at == {k \in 1..Len(events) : events[k].op = "process_playlist"}
        last == CHOOSE k \in at : \A j \in at : j <= k
    IN  SubSeq(events, last + 1, Len(events))

Failed(e) ==
    e.out = "raise" \/ (e.op = "get_video_details" /\ e.out = "empty")

\* C29: whatever fails on a video (metadata fetch, transcript fetch, the
\* writing of the note with its model calls), process_video is invoked for
\* every video of the playlist's list, in order; and whatever fails in a
\* playlist, process_playlist is invoked for every playlist of the channel's
\* list that has an ID.
BatchIsolation ==
    /\ (\E k \in 1..Len(events) : events[k].op = "process_playlist") =>
           /\ IdsOf(SinceLastPlaylist, "process_video")
                  = SubSeq(videos_to_process_ids, 1, vid_i - 1)
           /\ ppc # "playlist_loop" => vid_i = Len(videos_to_process_ids) + 1
    /\ (content.type = "channel" /\ ppc = "exited" /\ events # <<>>) =>
           IdsOf(events, "process_playlist") = ValidIds(playlists_to_process)

BatchIsolationWitness ==
    /\ content.type = "channel"
    /\ ppc = "exited"
    /\ \E k \in 1..Len(events) :
          /\ events[k].op = "write_video_note" /\ events[k].out = "raise"
          /\ \E m \in (k + 1)..Len(events) :
                /\ events[m].op = "process_video"
                /\ \E n \in (m + 1)..Len(events) : events[n].op = "process_playlist"

\* A playlist whose fetch fails, and a video whose metadata fetch fails, are
\* followed by the next playlist and the next video.
BatchFetchFailureWitness ==
    /\ content.type = "channel"
    /\ ppc = "exited"
    /\ \E k \in 1..Len(events) :
          /\ events[k].op = "get_videos_from_playlist" /\ events[k].out = "raise"
          /\ \E m \in (k + 1)..Len(events) :
                /\ events[m].op = "get_video_details" /\ events[m].out = "raise"
                /\ \E n \in (m + 1)..Len(events) : events[n].op = "process_video"

\* What the process_video call at events[k] did: the events up to the next call
\* of a process_* function.
BodyOf(k) ==
    LET later == {j \in (k + 1)..Len(events) :
                     events[j].op \in {"process_video", "process_playlist"}}
        stop == IF later = {} THEN Len(events) + 1
                ELSE CHOOSE j \in later : \A i \in later : j <= i
    IN  SubSeq(events, k + 1, stop - 1)

\* C30: a process_video call without overwrite for a video that has a note
\* makes no metadata fetch, no transcript fetch and no write; a call with
\* overwrite fetches the metadata whether or not the video has a note, and
\* with the metadata in hand fetches the transcript and writes the note.
SkipExistingUnlessOverwrite ==
    \A k \in 1..Len(events) :
        events[k].op = "process_video" =>
            LET call == events[k]
                body == BodyOf(k)
            IN  /\ (~call.overwrite /\ call.existing) => body = <<>>
                /\ call.overwrite =>
                       /\ body # <<>>
                       /\ body[1].op = "get_video_details" /\ body[1].id = call.id
                       /\ body[1].out = "ok" =>
                              /\ Len(body) = 3
                              /\ body[2].op = "get_transcript" /\ body[2].id = call.id
                              /\ body[3].op = "write_video_note" /\ body[3].id = call.id

SkipExistingWitness ==
    /\ content.type = "video"
    /\ ppc = "exited"
    /\ ~overwrite
    /\ content.id \in existing_ids
    /\ events = <<VideoCall(content.id, FALSE, TRUE)>>

OverwriteExistingWitness ==
    /\ content.type = "video"
    /\ ppc = "exited"
    /\ overwrite
    /\ Len(events) = 4
    /\ events[1] = VideoCall(content.id, TRUE, TRUE)
    /\ events[4] = Event("write_video_note", content.id, "ok")

\* C34: on the chunked path of generate_summary the chunker returns at least
\* two chunks, so a summary of N chunks that returns has made exactly N + 1
\* calls of _make_api_request, N for the sections and one for the
\* meta-summary, and the return of a lone chunk's summary is never reached.
ChunkedSummaryHasMeta ==
    /\ (pc \in {"chunking", "section", "meta", "returned"} /\ cpc = "done") =>
          Len(chunks) >= 2
    /\ (pc = "returned" /\ cpc = "done" /\ ~raised) =>
          /\ Len(Started("section")) = Len(chunks)
          /\ Len(Started("meta")) = 1
          /\ api_requests = Len(chunks) + 1
          /\ Len(call_trace) = 2 * (Len(chunks) + 1)

ChunkedSummaryHasMetaWitness ==
    /\ pc = "returned" /\ cpc = "done" /\ ~raised
    /\ Len(transcript) = max_chars + 1
    /\ Len(chunks) = 2
    /\ api_requests = 3
    /\ Len(Started("meta")) = 1

\* C35: whenever overlap < int(0.8 * max_chars) + 2 every iteration of the
\* loop of _chunk_transcript moves start strictly forward, so the loop ends
\* on every text.
ChunkProgressBelowSnapFloor ==
    [][(cpc = "loop" /\ overlap < IntOfEightTenths(max_chars) + 2 /\ chunks' # chunks) =>
          start' > start]_vars

\* The calls that ended with a retryable error: their retries ran out.
ExhaustedCalls ==
    {k \in 1..Len(call_trace) :
        call_trace[k].ev = "end" /\ call_trace[k].out.type \in RetryableTypes}

\* C36: every _make_api_request counts its attempts from 1 whatever the calls
\* before it did: attempt_log holds the invocations of the endpoint by the
\* current call alone, there are never more than max_retries + 1 of them, and
\* a call gives up on a retryable error only after max_retries + 1 of its own.
\* With N chunks generate_summary makes at most N + 1 calls and
\* generate_keywords at most N, hence at most (N + 1) * (max_retries + 1) and
\* N * (max_retries + 1) invocations of the endpoint.
RetryBudgetPerCall ==
    /\ call_state = "Attempting" => attempt = Len(attempt_log) + 1
    /\ Len(attempt_log) <= max_retries + 1
    /\ call_state = "Exhausted" => Len(attempt_log) = max_retries + 1
    /\ api_requests = Len(SelectSeq(call_trace, LAMBDA r : r.ev = "start"))
    /\ (pc \in {"section", "meta", "returned"} /\ cpc = "done") =>
          api_requests * (max_retries + 1) <= (Len(chunks) + 1) * (max_retries + 1)
    /\ (pc \in {"kw_section", "returned"} /\ cpc = "done" /\ Started("kw_section") # <<>>) =>
          api_requests * (max_retries + 1) <= Len(chunks) * (max_retries + 1)

\* Every section call ran out of retries and the meta-summary call after
\* them still made max_retries + 1 attempts of its own.
RetryBudgetPerCallWitness ==
    /\ pc = "returned" /\ cpc = "done" /\ max_retries >= 1
    /\ Len(chunks) = 2
    /\ ExhaustedCalls = {2, 4, 6}
    /\ call_state = "Exhausted"
    /\ Len(attempt_log) = max_retries + 1

RetryBudgetKeywordsWitness ==
    /\ pc = "returned" /\ cpc = "done" /\ max_retries >= 1
    /\ Started("kw_section") # <<>>
    /\ ExhaustedCalls = {2 * k : k \in 1..Len(chunks)}
    /\ api_requests = Len(chunks)
    /\ Len(attempt_log) = max_retries + 1

\* C37: with max_keywords = m >= 0 generate_keywords returns at most m
\* keywords whatever the endpoint answered, on the single-call path and on
\* the chunked path.
KeywordCountWithinLimit ==
    (pc = "returned" /\ ~raised /\ ~max_keywords.none /\ max_keywords.n >= 0) =>
        Len(result) <= max_keywords.n

\* The list the claim describes: the items that have a video ID, without those
\* that have a note when overwrite is off, cut to the first lim when lim > 0.
ExpectedIds(items, ow, existing, lim) ==
    LET kept == SelectSeq(items, LAMBDA v : v # MissingId /\ (ow \/ v \notin existing))
    IN  IF lim > 0 THEN SubSeq(kept, 1, Min2(lim, Len(kept))) ELSE kept

\* The limit of the running process_playlist call.
LimitInForce == IF content.type = "playlist" THEN limit ELSE 0

\* This step enters process_playlist.
EntersPlaylist ==
    /\ Len(events') > Len(events)
    /\ events'[Len(events) + 1].op = "process_playlist"

\* C33: process_playlist calls process_video once per video, in listing order,
\* for exactly the items that have a video ID, without those that have a note
\* already when overwrite is off, cut to the first limit of them when
\* limit > 0; an item without a video ID does not stop the ones after it.
PlaylistCallsInOrder ==
    [][/\ EntersPlaylist =>
            /\ videos_to_process_ids' =
                   ExpectedIds(all_videos_items', overwrite, existing_ids, LimitInForce)
            /\ (ppc' # "playlist_loop" => videos_to_process_ids' = <<>>)
       /\ ppc' = "playlist_loop" =>
            (IdsOf(SinceLastPlaylist, "process_video"))'
                = SubSeq(videos_to_process_ids', 1, vid_i' - 1)
       /\ (ppc = "playlist_loop" /\ ppc' # "playlist_loop") =>
            (IdsOf(SinceLastPlaylist, "process_video"))' = videos_to_process_ids'
       /\ (ppc = "playlist_loop" /\ ppc' = "playlist_loop" /\ ~EntersPlaylist) =>
            /\ vid_i' = vid_i + 1
            /\ Len(SelectSeq(events', LAMBDA e : e.op = "process_video"))
                 = Len(SelectSeq(events, LAMBDA e : e.op = "process_video")) + 1]_vars

\* A playlist of two videos processed with limit 1: only the first is processed.
PlaylistCallsInOrderWitness ==
    /\ ppc = "exited" /\ content.type = "playlist"
    /\ limit = 1 /\ ~overwrite
    /\ all_videos_items = <<1, 2>>
    /\ IdsOf(events, "process_video") = <<1>>

\* The first item has no video ID and the second is processed all the same.
PlaylistSkipsMissingIdWitness ==
    /\ ppc = "exited" /\ content.type = "playlist"
    /\ all_videos_items = <<MissingId, 2>>
    /\ IdsOf(events, "process_video") = <<2>>

---------------------------------------------------------------------------
(* Properties of the notes in the output directory, checked under          *)
(* SpecNotes.                                                              *)

WroteNote(k) == events[k].op = "write_video_note" /\ events[k].out = "ok"

\* The process_video calls that come right after the writing of a note of
\* their own video: nothing was written in between.
CallsAfterOwnNote ==
    {k \in 2..Len(events) :
        /\ events[k].op = "process_video"
        /\ WroteNote(k - 1)
        /\ events[k - 1].id = events[k].id}

\* C38: the note process_video writes for video v carries v as its
\* youtube_id, so get_existing_video_ids of the directory contains v, and a
\* process_video(v) without overwrite that follows fetches nothing and
\* writes nothing.
RerunIdempotence ==
    /\ \A f \in DOMAIN files :
          /\ files[f].youtube_id = files[f].video
          /\ files[f].video \in existing_ids
    /\ \A k \in CallsAfterOwnNote : ~events[k].overwrite => BodyOf(k) = <<>>

\* C39: over any sequence of process_video calls into one directory every
\* video a note was written for still has its note: no write for one video
\* replaced the file of another, also when their dates and slugs are equal.
NotesKeptApart ==
    \A k \in 1..Len(events) :
        WroteNote(k) => \E f \in DOMAIN files : files[f].video = events[k].id

===========================================================================
